---------------------------- MODULE Spec2Model ----------------------------
(***************************************************************************)
(* A model of the recursive research engine of deep-research-mcp:          *)
(* generateSerpQueries, processSerpResult and deepResearch                 *)
(* (src/src/deep-research.ts, and the second copy of the same functions    *)
(* that follows the server in src/src/mcp-server.ts).                      *)
(*                                                                         *)
(* Numbers in [0,1] (reliability scores, thresholds, confidences) are kept *)
(* in tenths: 10 stands for 1.0, 14 for 1.4, -3 for -0.3.  So is the depth *)
(* of an invocation, which is a number: 10 is depth 1, 15 is depth 1.5.    *)
(***************************************************************************)
EXTENDS Integers, Sequences, FiniteSets, TLC

VARIABLES
    impl,   \* which copy of deepResearch runs: "deep-research" or "mcp-server"
    call,   \* the arguments of the top-level deepResearch call
    world,  \* what the collaborators may answer: "varied", "plain", "throwing",
            \* "shared" or "graded"
    node,   \* node[p]: the deepResearch invocation reached by the path p
    unit,   \* unit[u]: the limit(async () => ...) closure of query u
    pq,     \* one planning round followed step by step (SpecPlan)
    pr,     \* one processSerpResult call (SpecProcess)
    cnt,    \* the recursion walked as a call stack, counting queries (SpecCount)
    mg,     \* one merge of branch results and the merge of its result (SpecMerge)
    sv,     \* one call of the deep-research tool of the server (SpecServer)
    tc,     \* two overlapping calls of the tool and the containers (SpecTwo)
    op,     \* the onProgress callback of the handler of the tool (SpecNotify)
    pm      \* one selection of a model from the environment (SpecModel)

vars == <<impl, call, world, node, unit, pq, pr, cnt, mg, sv, tc, op, pm>>

\* What no step of a run changes
setting == <<impl, call, world>>

-----------------------------------------------------------------------------
(* Bounds of the model.                                                    *)

\* deepest tree the concurrent model explores
MaxDepth == 2
\* widest first planning round the concurrent model explores
MaxBreadth == 2

\* config.firecrawl.concurrency: "should use default concurrency when not set"
ConcurrencyLimit == 2

-----------------------------------------------------------------------------
(* Small helpers.                                                          *)

Min(a, b) == IF a < b THEN a ELSE b

Max(a, b) == IF a > b THEN a ELSE b

\* CeilHalf without the halving: the child gets the breadth of its parent
SameBreadth(n) == n

\* Math.ceil(n / 2) for n >= 0
CeilHalf(n) == (n + 1) \div 2

Range(s) == {s[i] : i \in 1..Len(s)}

\* Flatten keeping the first sequence alone
FlattenHead(ss) == IF ss = <<>> THEN <<>> ELSE Head(ss)

RECURSIVE Flatten(_)
\* results.flatMap(r => r.f) once the fields are collected in a sequence
Flatten(ss) == IF ss = <<>> THEN <<>> ELSE Head(ss) \o Flatten(Tail(ss))

RECURSIVE DedupFrom(_, _)
DedupFrom(s, seen) ==
    IF s = <<>> THEN <<>>
    ELSE IF Head(s) \in seen THEN DedupFrom(Tail(s), seen)
         ELSE <<Head(s)>> \o DedupFrom(Tail(s), seen \cup {Head(s)})

\* Dedup listing the newest element first
DedupNewestFirst(s) ==
    LET d == DedupFrom(s, {})
    IN  [i \in 1..Len(d) |-> d[Len(d) + 1 - i]]

\* [...new Set(s)]: the first occurrence of every element, in order
Dedup(s) == DedupFrom(s, {})

\* All sequences over S of length 0..n
SeqUpTo(S, n) == UNION {[1..k -> S] : k \in 0..n}


-----------------------------------------------------------------------------
(* Data.  A string is a tuple of numbers and <<>> is the empty (or         *)
(* missing) string, which lodash compact() drops.  A URL is <<host, page>>; *)
(* a non-empty string of another length is text that new URL() rejects.    *)

NoString == <<>>

\* compact(xs): the truthy elements, in order
Compact(s) == SelectSeq(s, LAMBDA x : x # NoString)

\* new URL(url) throws on text that is no URL
IsUrl(url) == Len(url) = 2

\* new URL(url).hostname
Hostname(url) == <<url[1]>>

\* The value every errored unit returns, and the shape of every result
EmptyBranch ==
    [learnings |-> <<>>, learningReliabilities |-> <<>>, visitedUrls |-> <<>>,
     sourceMetadata |-> <<>>, weightedLearnings |-> <<>>]

-----------------------------------------------------------------------------
(* generateSerpQueries                                                     *)

\* ClampThreshold without its lower bound: Math.min(1, t)
ClampUpperOnly(t) == Min(10, t)

\* Math.max(0, Math.min(1, t))
ClampThreshold(t) == Max(0, Min(10, t))

\* What generateSerpQueries returns when generateObject answered `queries`:
\* every query of the answer, its threshold clamped.  numQueries only
\* words the prompt.
GenerateSerpQueries(queries, numQueries) ==
    [i \in 1..Len(queries) |->
        [queries[i] EXCEPT !.reliabilityThreshold = ClampThreshold(@)]]

RECURSIVE InsertByPriority(_, _)
\* d goes behind every direction whose priority is not lower
InsertByPriority(d, s) ==
    IF s = <<>> THEN <<d>>
    ELSE IF Head(s).priority >= d.priority
         THEN <<Head(s)>> \o InsertByPriority(d, Tail(s))
         ELSE <<d>> \o s

RECURSIVE SortByPriority(_)
\* researchDirections.sort((a, b) => b.priority - a.priority), evaluated
\* while the prompt is built: Array.prototype.sort reorders the array that
\* the caller passed
SortByPriority(s) ==
    IF s = <<>> THEN <<>>
    ELSE InsertByPriority(s[Len(s)], SortByPriority(SubSeq(s, 1, Len(s) - 1)))

-----------------------------------------------------------------------------
(* processSerpResult                                                       *)

\* contents: the markdown of the items that have some
Contents(data) == Compact([i \in 1..Len(data) |-> data[i].markdown])

\* ItemMetadata with no catch of the evaluator's failure: the item keeps an
\* entry, of the score 0
ItemMetadataUncaught(item, ev) ==
    IF item.url = NoString \/ ~IsUrl(item.url) THEN NoString
    ELSE [url |-> item.url, domain |-> Hostname(item.url),
          reliabilityScore |-> ev.score]

\* What the async callback of one item resolves to: a SourceMetadata, or
\* NoString (null) when the item has no url, the url does not parse or the
\* evaluator failed.
ItemMetadata(item, ev) ==
    IF item.url = NoString \/ ~IsUrl(item.url) \/ ~ev.ok THEN NoString
    ELSE [url |-> item.url, domain |-> Hostname(item.url),
          reliabilityScore |-> ev.score]

\* compact(await Promise.all(sourceMetadataPromises))
SourceMetadataOf(data, evals) ==
    Compact([i \in 1..Len(data) |-> ItemMetadata(data[i], evals[i])])

\* contents.map((content, i) => ({content, metadata: sourceMetadata[i]}))
\*         .filter(item => !!item.metadata)
ContentWithMetadata(data, evals) ==
    LET contents == Contents(data)
        metadata == SourceMetadataOf(data, evals)
        n == Min(Len(contents), Len(metadata))
    IN  [i \in 1..n |-> [content |-> contents[i], metadata |-> metadata[i]]]

RECURSIVE InsertByScore(_, _)
\* x goes behind every item whose score is not lower: the sort is stable
InsertByScore(x, s) ==
    IF s = <<>> THEN <<x>>
    ELSE IF Head(s).metadata.reliabilityScore >= x.metadata.reliabilityScore
         THEN <<Head(s)>> \o InsertByScore(x, Tail(s))
         ELSE <<x>> \o s

\* SortByScore that leaves the items in their order
Unsorted(s) == s

RECURSIVE SortByScore(_)
\* items.sort((a, b) => b.metadata.reliabilityScore - a.metadata.reliabilityScore)
SortByScore(s) ==
    IF s = <<>> THEN <<>>
    ELSE InsertByScore(s[Len(s)], SortByScore(SubSeq(s, 1, Len(s) - 1)))

\* sortedContents: sorted, then filtered by the threshold.  The function
\* computes it and never reads it.
SortedContents(data, evals, reliabilityThreshold) ==
    LET kept == SelectSeq(SortByScore(ContentWithMetadata(data, evals)),
                    LAMBDA it : it.metadata.reliabilityScore >= reliabilityThreshold)
    IN  [i \in 1..Len(kept) |-> kept[i].content]

\* The <content> blocks of the prompt: contentWithMetadata, which sort()
\* has reordered in place.
PromptContents(data, evals, reliabilityThreshold) ==
    SortByScore(ContentWithMetadata(data, evals))

\* The value processSerpResult returns when the synthesis answered `synth`.
\* A weighted learning is a fresh object: `ref` is its identity.
ProcessSerpResult(query, data, evals, synth, numFollowUpQuestions, reliabilityThreshold) ==
    LET weighted == [i \in 1..Len(synth.learnings) |->
                        [content |-> synth.learnings[i].content,
                         reliability |-> synth.learnings[i].confidence,
                         ref |-> <<query, i>>]]
        limited == SubSeq(synth.followUpQuestions, 1,
                          Min(numFollowUpQuestions, Len(synth.followUpQuestions)))
    IN  [prompt |-> PromptContents(data, evals, reliabilityThreshold),
         sourceMetadata |-> SourceMetadataOf(data, evals),
         learnings |-> [i \in 1..Len(weighted) |-> weighted[i].content],
         learningConfidences |-> [i \in 1..Len(weighted) |-> weighted[i].reliability],
         followUpQuestions |-> [i \in 1..Len(limited) |-> limited[i].question],
         followUpPriorities |-> [i \in 1..Len(limited) |-> limited[i].priority],
         weightedLearnings |-> weighted]

-----------------------------------------------------------------------------
(* deepResearch: the values it builds                                      *)

\* NewDepth with the depth left as it is
DepthKept(depth) == depth

\* const newDepth = depth - 1, the depth in tenths
NewDepth(depth) == depth - 10

\* The depths 1, 2, ..., n
WholeDepths(n) == {10 * d : d \in 1..n}

\* The arguments of the processSerpResult call of one query
ProcessArgs(serpQuery, breadth) ==
    [query |-> serpQuery.query,
     numFollowUpQuestions |-> CeilHalf(breadth),
     reliabilityThreshold |-> serpQuery.reliabilityThreshold]

\* Accumulate without what the invocation received
AccumulateOwn(acc, data, processed) ==
    [learnings |-> processed.learnings,
     learningReliabilities |-> processed.learningConfidences,
     visitedUrls |-> Compact([i \in 1..Len(data) |-> data[i].url]),
     sourceMetadata |-> processed.sourceMetadata,
     weightedLearnings |-> processed.weightedLearnings]

\* Accumulate without the urls that the search of this query found
AccumulateUnvisited(acc, data, processed) ==
    [learnings |-> acc.learnings \o processed.learnings,
     learningReliabilities |-> processed.learningConfidences,
     visitedUrls |-> acc.visitedUrls,
     sourceMetadata |-> acc.sourceMetadata \o processed.sourceMetadata,
     weightedLearnings |-> acc.weightedLearnings \o processed.weightedLearnings]

\* allLearnings, allUrls, allSourceMetadata, allWeightedLearnings: what the
\* invocation received, then what this query added
Accumulate(acc, data, processed) ==
    [learnings |-> acc.learnings \o processed.learnings,
     learningReliabilities |-> processed.learningConfidences,
     visitedUrls |-> acc.visitedUrls \o Compact([i \in 1..Len(data) |-> data[i].url]),
     sourceMetadata |-> acc.sourceMetadata \o processed.sourceMetadata,
     weightedLearnings |-> acc.weightedLearnings \o processed.weightedLearnings]

\* LastWithUrl keeping the first entry of the url
FirstWithUrl(metas, url) ==
    LET first == CHOOSE i \in 1..Len(metas) :
                    /\ metas[i].url = url
                    /\ \A j \in 1..(i - 1) : metas[j].url # url
    IN  metas[first]

\* The last entry of metas that has this url
LastWithUrl(metas, url) ==
    LET last == CHOOSE i \in 1..Len(metas) :
                    /\ metas[i].url = url
                    /\ \A j \in (i + 1)..Len(metas) : metas[j].url # url
    IN  metas[last]

\* Array.from(metas.reduce((map, meta) => map.set(meta.url, meta)).values()):
\* a key keeps the place of its first insertion and the value of its last
DedupByUrl(metas) ==
    LET keyed == SelectSeq(metas, LAMBDA m : m.url # NoString)
        urls == Dedup([i \in 1..Len(keyed) |-> keyed[i].url])
    IN  [i \in 1..Len(urls) |-> LastWithUrl(keyed, urls[i])]

\* Merge returning the result of the first query alone
MergeFirstOnly(results) == IF results = <<>> THEN EmptyBranch ELSE results[1]

\* combinedResults, from the results in the order of the queries
Merge(results) ==
    LET n == Len(results)
    IN  [learnings |-> Dedup(Flatten([i \in 1..n |-> results[i].learnings])),
         learningReliabilities |->
            Dedup(Flatten([i \in 1..n |-> results[i].learningReliabilities])),
         visitedUrls |-> Dedup(Flatten([i \in 1..n |-> results[i].visitedUrls])),
         sourceMetadata |->
            DedupByUrl(Flatten([i \in 1..n |-> results[i].sourceMetadata])),
         weightedLearnings |->
            Dedup(Flatten([i \in 1..n |-> results[i].weightedLearnings]))]

-----------------------------------------------------------------------------
(* The tree of one deepResearch run.  The invocation reached through the   *)
(* queries i1, i2, ... is node <<i1, i2, ...>>; the root is node <<>>.     *)
(* Query i of node p runs in unit Append(p, i), and the invocation that    *)
(* unit u calls is node u.                                                 *)

Impls == {"deep-research", "mcp-server"}

\* widest first planning round of the runs in the plain world
MaxWide == 3

Paths(n) == UNION {[1..k -> 1..Max(MaxBreadth, MaxWide)] : k \in 0..n}

NodeIds == Paths(MaxDepth - 1)

UnitIds == Paths(MaxDepth) \ {<<>>}

Parent(u) == SubSeq(u, 1, Len(u) - 1)

Index(u) == u[Len(u)]

\* totalQueries, completedQueries: the fields of the progress record of the
\* invocation, which every onProgress notification of the invocation shows
IdleNode ==
    [st |-> "idle", depth |-> 0, breadth |-> 0, args |-> EmptyBranch,
     queries |-> <<>>, result |-> EmptyBranch,
     totalQueries |-> 0, completedQueries |-> 0]

\* searched: the query texts that the unit passed to firecrawl.search;
\* asked: the numFollowUpQuestions that it passed to processSerpResult;
\* rank: its place in the order in which the promises of the units of its
\* invocation settled
IdleUnit ==
    [pc |-> "idle", how |-> "", searched |-> <<>>, data |-> <<>>, asked |-> 0,
     extracted |-> <<>>, result |-> EmptyBranch, rank |-> 0]

\* The state of a deepResearch invocation as its body starts: its
\* parameters are bound and generateSerpQueries is awaited
NewNode(depth, breadth, args) ==
    [st |-> "planning", depth |-> depth, breadth |-> breadth, args |-> args,
     queries |-> <<>>, result |-> EmptyBranch,
     totalQueries |-> 0, completedQueries |-> 0]

\* The units of node p in the order in which they settled, the unsettled
\* ones first
UnitsByRank(p) ==
    LET n == Len(node[p].queries)
        key(i) == unit[Append(p, i)].rank * (n + 1) + i
        place(i) == Cardinality({j \in 1..n : key(j) < key(i)}) + 1
    IN  [k \in 1..n |-> Append(p, CHOOSE i \in 1..n : place(i) = k)]

\* The units of node p, in the order of serpQueries: Promise.all resolves
\* with the results in the order of the promises it was given
UnitsOf(p) == [i \in 1..Len(node[p].queries) |-> Append(p, i)]

\* Units whose closure runs: p-limit counts them in activeCount from the
\* call of the closure until its promise settles
Active(u) == unit[u].pc \in {"searching", "processing", "recursing"}

Settled(u) == unit[u].pc \in {"returned", "rejected"}

\* How many units of node p have settled
SettledCount(p) ==
    Cardinality({i \in 1..Len(node[p].queries) : Settled(Append(p, i))})

\* What the collaborators answer in the tree.  The planner names query i
\* of node p by its path and returns up to numQueries queries; the search
\* finds nothing or one page; the evaluator scores the page or fails; the
\* synthesis extracts nothing or one learning named after the query.  In
\* the "plain" world every answer is the full one (a collaborator may
\* still fail); the "throwing" world is the plain one with an onProgress
\* callback that may throw; in the "shared" world, a plain one, every
\* search finds the same page and the evaluator, which is given the query
\* as its context, scores it by the query; in the "graded" world, a plain
\* one, the evaluator fails or gives one of two scores.
TreeThresholds == {5}

TreeScores == {8}

\* The scores of the "graded" world: one below the threshold, one above
GradedScores == {3, 8}

TreeAnswers(p, numQueries) ==
    {[i \in 1..k |-> [query |-> Append(p, i), reliabilityThreshold |-> t]] :
        k \in (IF world # "varied" THEN {numQueries} ELSE 0..numQueries),
        t \in TreeThresholds}

TreeSearchData(u) ==
    (IF world # "varied" THEN {} ELSE {<<>>})
        \cup {<<[url |-> <<1, IF world = "shared" THEN 1 ELSE Index(u)>>,
                 markdown |-> u]>>}

\* The score that the evaluator gives the shared page for the query of
\* unit u: 9 and 5 for the queries of the top-level call, 7 and 3 below them
SharedScore(u) == 15 - 4 * u[1] - 2 * Len(u)

TreeEvals(u, data) ==
    [1..Len(data) -> (IF world \in {"varied", "graded"}
                      THEN {[ok |-> FALSE, score |-> 0]} ELSE {})
                     \cup {[ok |-> TRUE, score |-> s] :
                             s \in (IF world = "shared" THEN {SharedScore(u)}
                                    ELSE IF world = "graded" THEN GradedScores
                                    ELSE TreeScores)}]

TreeSynth(u) ==
    (IF world # "varied" THEN {} ELSE {[learnings |-> <<>>, followUpQuestions |-> <<>>]})
        \cup {[learnings |-> <<[content |-> u, confidence |-> 7]>>,
               followUpQuestions |-> <<>>]}

\* Dispatch with one limiter for the whole tree: a closure is called only
\* while fewer units than the limit run anywhere
DispatchShared(p, queries) ==
    LET free == call.concurrency - Cardinality({w \in UnitIds : Active(w)})
    IN  [v \in UnitIds |->
            IF Len(v) = Len(p) + 1 /\ Parent(v) = p /\ Index(v) <= Len(queries)
            THEN IF Index(v) <= free
                 THEN [IdleUnit EXCEPT !.pc = "searching",
                                       !.searched = <<queries[Index(v)].query>>]
                 ELSE [IdleUnit EXCEPT !.pc = "queued"]
            ELSE unit[v]]

\* pLimit(ConcurrencyLimit) over serpQueries.map, with the limiter made in
\* the invocation: the closures of the first ConcurrencyLimit queries are
\* called, the others wait in the queue.  call.concurrency is the value of
\* firecrawlConfig.concurrency in the run.
Dispatch(p, queries) ==
    [v \in UnitIds |->
        IF Len(v) = Len(p) + 1 /\ Parent(v) = p /\ Index(v) <= Len(queries)
        THEN IF Index(v) <= call.concurrency
             THEN [IdleUnit EXCEPT !.pc = "searching",
                                   !.searched = <<queries[Index(v)].query>>]
             ELSE [IdleUnit EXCEPT !.pc = "queued"]
        ELSE unit[v]]

\* NextQueued of a limiter that never calls a waiting closure
NoneQueued(p) == {}

\* The head of the queue of the limiter of node p
NextQueued(p) ==
    LET waiting == {i \in 1..Len(node[p].queries) : unit[Append(p, i)].pc = "queued"}
    IN  IF waiting = {} THEN {}
        ELSE {Append(p, CHOOSE i \in waiting : \A j \in waiting : i <= j)}

\* The promise of unit u settles: p-limit's next() then calls the closure
\* at the head of the queue of the same limiter
SettleUnit(u, pc, how, extracted, result) ==
    [v \in UnitIds |->
        IF v = u
        THEN [unit[u] EXCEPT !.pc = pc, !.how = how, !.extracted = extracted,
                             !.result = result,
                             !.rank = SettledCount(Parent(u)) + 1]
        ELSE IF v \in NextQueued(Parent(u))
             THEN [unit[v] EXCEPT
                     !.pc = "searching",
                     !.searched = Append(@, node[Parent(v)].queries[Index(v)].query)]
             ELSE unit[v]]

\* The call passes no tokenBudget
NoBudget == 0

\* tokenBudget: 500 in the call of the test of the budget
TestBudget == 500

\* usage: {totalTokens: 1000} in every answer of generateObject in that test.
\* deepResearch reads `object` of the answer, never `usage`.
TestUsage == 1000

\* A run: the copy of the code, the arguments of the call, the world.
\* deepResearch destructures query, breadth, depth, learnings, ... and
\* onProgress from its argument: a tokenBudget property is never read.
TreeInit(shapes, worlds) ==
    /\ impl \in Impls
    /\ call \in shapes
    /\ world \in worlds
    /\ node = [p \in NodeIds |->
                 IF p = <<>> THEN NewNode(call.depth, call.breadth, EmptyBranch)
                 ELSE IdleNode]
    /\ unit = [u \in UnitIds |-> IdleUnit]

-----------------------------------------------------------------------------
(* deepResearch: the steps of an invocation and of its units               *)

\* reportProgress calls onProgress?.(progress) with no try block of its
\* own: where the callback throws, reportProgress throws
OnProgressThrows == world = "throwing"

\* await generateSerpQueries(...), reportProgress(...), then limit(...) on
\* every query.  The first two are outside every try block: a failed
\* generateObject, or a throwing callback, rejects the invocation.
Plan(p) ==
    /\ node[p].st = "planning"
    /\ \/ /\ node' = [node EXCEPT ![p].st = "rejected"]
          /\ UNCHANGED unit
       \/ \E answer \in TreeAnswers(p, node[p].breadth) :
            LET queries == GenerateSerpQueries(answer, node[p].breadth)
            IN  \/ /\ node' = [node EXCEPT ![p].st = "running", ![p].queries = queries,
                                           ![p].totalQueries = Len(queries)]
                   /\ unit' = Dispatch(p, queries)
                \/ /\ OnProgressThrows
                   /\ node' = [node EXCEPT ![p].st = "rejected", ![p].queries = queries,
                                           ![p].totalQueries = Len(queries)]
                   /\ UNCHANGED unit
    /\ UNCHANGED <<setting, pq, pr, cnt, mg, sv, tc, op, pm>>

\* SearchReturn with the search outside the try block: its error rejects
\* the unit
SearchReturnUncaught(u) ==
    /\ unit[u].pc = "searching"
    /\ \/ unit' = SettleUnit(u, "rejected", "searchError", <<>>, EmptyBranch)
       \/ \E data \in TreeSearchData(u) :
            unit' = [unit EXCEPT
                ![u].pc = "processing", ![u].data = data,
                ![u].asked = ProcessArgs(node[Parent(u)].queries[Index(u)],
                                         node[Parent(u)].breadth).numFollowUpQuestions]
    /\ UNCHANGED <<setting, node, pq, pr, cnt, mg, sv, tc, op, pm>>

\* await firecrawl.search(...): it throws (an error, a timeout), which the
\* catch of the unit turns into the empty result, or it answers
SearchReturn(u) ==
    /\ unit[u].pc = "searching"
    /\ \/ unit' = SettleUnit(u, "returned", "searchError", <<>>, EmptyBranch)
       \/ \E data \in TreeSearchData(u) :
            unit' = [unit EXCEPT
                ![u].pc = "processing", ![u].data = data,
                ![u].asked = ProcessArgs(node[Parent(u)].queries[Index(u)],
                                         node[Parent(u)].breadth).numFollowUpQuestions]
    /\ UNCHANGED <<setting, node, pq, pr, cnt, mg, sv, tc, op, pm>>

\* CompletedAfter counting the query twice
CompletedTwice(n) == n + 2

\* completedQueries: progress.completedQueries + 1, read and assigned by
\* Object.assign with no await in between
CompletedAfter(n) == n + 1

\* Whether a unit that recurses is counted in completedQueries after its
\* recursive call has returned (the copy in mcp-server.ts) or in the
\* reportProgress call before the recursion (deep-research.ts)
CountsAfterChild == impl = "mcp-server"

\* await processSerpResult(...) and the rest of the try block up to the
\* recursive call or the return of the terminal result.  reportProgress is
\* called before either, inside the try block: its error is caught as the
\* error of the query.
ProcessReturn(u) ==
    LET p == Parent(u)
        a == ProcessArgs(node[p].queries[Index(u)], node[p].breadth)
        newDepth == NewDepth(node[p].depth)
        newBreadth == CeilHalf(node[p].breadth)
    IN  /\ unit[u].pc = "processing"
        /\ \/ /\ unit' = SettleUnit(u, "returned", "processError", <<>>, EmptyBranch)
              /\ UNCHANGED node
           \/ \E evals \in TreeEvals(u, unit[u].data), synth \in TreeSynth(u) :
                LET processed == ProcessSerpResult(a.query, unit[u].data, evals, synth,
                                     a.numFollowUpQuestions, a.reliabilityThreshold)
                    all == Accumulate(node[p].args, unit[u].data, processed)
                    counted == [node EXCEPT ![p].completedQueries =
                                  IF newDepth > 0 /\ CountsAfterChild THEN @
                                  ELSE CompletedAfter(@)]
                IN  \/ IF newDepth > 0
                       THEN /\ node' = [counted EXCEPT
                                          ![u] = NewNode(newDepth, newBreadth, all)]
                            /\ unit' = [unit EXCEPT ![u].pc = "recursing",
                                                    ![u].extracted = processed.learnings]
                       ELSE /\ unit' = SettleUnit(u, "returned", "terminal",
                                                  processed.learnings, all)
                            /\ node' = counted
                    \/ /\ OnProgressThrows
                       /\ unit' = SettleUnit(u, "returned", "progressError",
                                             processed.learnings, EmptyBranch)
                       /\ node' = counted
        /\ UNCHANGED <<setting, pq, pr, cnt, mg, sv, tc, op, pm>>

\* Whether the unit waits for the promise of the recursive call inside its
\* try block: `return deepResearch(...)` does not, `await deepResearch(...)`
\* does
AwaitsChild == impl = "mcp-server"

\* The recursive call settles.  Its result is the result of the unit.  Its
\* rejection is caught only where the call is awaited inside the try block;
\* a returned promise carries its rejection to the promise of the unit.
\* The copy that awaits the call calls reportProgress once more after it.
ChildReturn(u) ==
    /\ unit[u].pc = "recursing"
    /\ \/ /\ node[u].st = "resolved"
          /\ unit' = SettleUnit(u, "returned", "child", unit[u].extracted, node[u].result)
          /\ node' = [node EXCEPT ![Parent(u)].completedQueries =
                         IF CountsAfterChild THEN CompletedAfter(@) ELSE @]
       \/ /\ node[u].st = "resolved"
          /\ AwaitsChild
          /\ OnProgressThrows
          /\ unit' = SettleUnit(u, "returned", "progressError", unit[u].extracted,
                                EmptyBranch)
          /\ node' = [node EXCEPT ![Parent(u)].completedQueries =
                         IF CountsAfterChild THEN CompletedAfter(@) ELSE @]
       \/ /\ node[u].st = "rejected"
          /\ AwaitsChild
          /\ unit' = SettleUnit(u, "returned", "childError", unit[u].extracted, EmptyBranch)
          /\ UNCHANGED node
       \/ /\ node[u].st = "rejected"
          /\ ~AwaitsChild
          /\ unit' = SettleUnit(u, "rejected", "childError", unit[u].extracted, EmptyBranch)
          /\ UNCHANGED node
    /\ UNCHANGED <<setting, pq, pr, cnt, mg, sv, tc, op, pm>>

\* NodeReturn resolving as soon as one unit has returned
NodeReturnEarly(p) ==
    LET units == UnitsOf(p)
    IN  /\ node[p].st = "running"
        /\ \E i \in 1..Len(units) : unit[units[i]].pc = "returned"
        /\ node' = [node EXCEPT
              ![p].st = "resolved",
              ![p].result = Merge([i \in 1..Len(units) |-> unit[units[i]].result])]
        /\ UNCHANGED <<setting, unit, pq, pr, cnt, mg, sv, tc, op, pm>>

\* await Promise.all(...): it rejects as soon as one unit has rejected, and
\* resolves once every unit has returned; then the results are combined
NodeReturn(p) ==
    LET units == UnitsOf(p)
    IN  /\ node[p].st = "running"
        /\ \/ /\ \E i \in 1..Len(units) : unit[units[i]].pc = "rejected"
              /\ node' = [node EXCEPT ![p].st = "rejected"]
           \/ /\ \A i \in 1..Len(units) : unit[units[i]].pc = "returned"
              /\ node' = [node EXCEPT
                    ![p].st = "resolved",
                    ![p].result = Merge([i \in 1..Len(units) |-> unit[units[i]].result])]
        /\ UNCHANGED <<setting, unit, pq, pr, cnt, mg, sv, tc, op, pm>>

TreeNext ==
    \/ \E p \in NodeIds : Plan(p)
    \/ \E u \in UnitIds : SearchReturn(u)
    \/ \E u \in UnitIds : ProcessReturn(u)
    \/ \E u \in UnitIds : ChildReturn(u)
    \/ \E p \in NodeIds : NodeReturn(p)

\* The idle state of the specifications that follow one function
\* researchDirections: the array object that the caller passed, as it is
\* now; passed: its elements at the call
PlanIdle ==
    [pc |-> "idle", breadth |-> 0, researchDirections |-> <<>>, passed |-> <<>>,
     answer |-> <<>>, serpQueries |-> <<>>, units |-> <<>>]

ProcessIdle ==
    [pc |-> "idle", data |-> <<>>, evals |-> <<>>, reliabilityThreshold |-> 0,
     numFollowUpQuestions |-> 0, out |-> <<>>]

CountIdle ==
    [depth |-> 0, breadth |-> 0, stack |-> <<>>, planned |-> 0, pc |-> "idle"]

MergeIdle ==
    [pc |-> "idle", results |-> <<>>, merged |-> EmptyBranch, again |-> EmptyBranch]

\* connected: the transport of the server has its client, so that
\* server.notification resolves; checks, answer: the health checks made by
\* the startLocalFirecrawl call of the handler and the answer of the last;
\* research, report, saved: how deepResearch, writeFinalReport and the
\* writing of the sources file ended; stops: the calls of
\* stopLocalFirecrawl; threw: the promise of the handler rejected
ServerIdle ==
    [pc |-> "idle", query |-> <<>>, depth |-> 0, breadth |-> 0, local |-> FALSE,
     connected |-> TRUE, firecrawlStarted |-> FALSE, ups |-> 0, downs |-> 0,
     checks |-> 0, answer |-> "none", research |-> "none", report |-> "none",
     saved |-> "none", stops |-> 0, response |-> "none", threw |-> FALSE]

\* No call of the tool has arrived
CallsIdle ==
    [pc |-> <<"idle", "idle">>, firecrawlStarted |-> <<FALSE, FALSE>>,
     checks |-> <<0, 0>>, research |-> <<"none", "none">>,
     up |-> FALSE, ups |-> 0, downs |-> 0]

\* The handler has not called deepResearch.  currentProgress: the variable
\* of the handler; got: the formatted messages of the onProgress calls;
\* sent: the data of the notifications that onProgress issued; pending:
\* those whose promise has not settled
NotifyIdle ==
    [pc |-> "idle", connected |-> TRUE, currentProgress |-> NoString,
     got |-> <<>>, sent |-> <<>>, pending |-> <<>>, delivered |-> 0,
     failed |-> 0, logged |-> 0, research |-> "none",
     response |-> "none"]

\* No model has been asked for.  fn: the function called; env: process.env;
\* given, text: the modelSpecifier argument; available: what
\* getAvailableProviders returned; out: the model returned or the error thrown
ModelIdle ==
    [pc |-> "idle", fn |-> "none", env |-> <<>>, given |-> FALSE, text |-> <<>>,
     available |-> <<>>,
     out |-> [ok |-> FALSE, provider |-> "", model |-> <<>>, error |-> ""]]

\* No deepResearch run: the state of the tree in the specifications that
\* follow one function
NoTree ==
    /\ impl = ""
    /\ call = [depth |-> 0, breadth |-> 0, tokenBudget |-> NoBudget, concurrency |-> 0]
    /\ world = ""
    /\ node = [p \in NodeIds |-> IdleNode]
    /\ unit = [u \in UnitIds |-> IdleUnit]

-----------------------------------------------------------------------------
(* One planning round, step by step: generateSerpQueries answers, then     *)
(* every query of the answer gets its unit, which searches and calls       *)
(* processSerpResult.  Here the planner may answer anything the schema     *)
(* admits: any number of queries, any threshold.                           *)

\* widest planning round followed in SpecPlan
MaxPlanBreadth == 2
\* how many queries beyond numQueries the planner may answer
MaxOver == 1
\* how many research directions a caller passes at most
MaxDirections == 2

RawThresholds == {-3, 0, 5, 10, 14}

PlanAnswers(numQueries) ==
    UNION {[1..k -> [query : {<<1>>}, reliabilityThreshold : RawThresholds]] :
            k \in 0..(numQueries + MaxOver)}

\* The research directions a caller may pass
Directions == [question : {<<1>>}, priority : {1, 3, 5}]

PlanInit ==
    /\ NoTree /\ pr = ProcessIdle /\ cnt = CountIdle /\ mg = MergeIdle /\ sv = ServerIdle
    /\ tc = CallsIdle /\ op = NotifyIdle /\ pm = ModelIdle
    /\ \E b \in 1..MaxPlanBreadth, directions \in SeqUpTo(Directions, MaxDirections) :
         pq = [PlanIdle EXCEPT !.pc = "planning", !.breadth = b,
                               !.researchDirections = directions,
                               !.passed = directions]

\* const serpQueries = await generateSerpQueries({..., numQueries: breadth})
PlanQueries ==
    /\ pq.pc = "planning"
    /\ \E answer \in PlanAnswers(pq.breadth) :
         pq' = [pq EXCEPT !.pc = "dispatching", !.answer = answer,
                          !.researchDirections = SortByPriority(@),
                          !.serpQueries = GenerateSerpQueries(answer, pq.breadth)]
    /\ UNCHANGED <<setting, node, unit, pr, cnt, mg, sv, tc, op, pm>>

\* The unit of the next query: firecrawl.search(serpQuery.query, ...), then,
\* unless the search threw, processSerpResult with the arguments of the query
PlanUnit ==
    LET i == Len(pq.units) + 1
    IN  /\ pq.pc = "dispatching"
        /\ i <= Len(pq.serpQueries)
        /\ \E found \in BOOLEAN :
             pq' = [pq EXCEPT !.units = Append(@,
                        [searched |-> pq.serpQueries[i].query, processed |-> found,
                         args |-> ProcessArgs(pq.serpQueries[i], pq.breadth)])]
        /\ UNCHANGED <<setting, node, unit, pr, cnt, mg, sv, tc, op, pm>>

\* Every unit has settled
PlanDone ==
    /\ pq.pc = "dispatching"
    /\ Len(pq.units) = Len(pq.serpQueries)
    /\ pq' = [pq EXCEPT !.pc = "done"]
    /\ UNCHANGED <<setting, node, unit, pr, cnt, mg, sv, tc, op, pm>>

PlanNext == PlanQueries \/ PlanUnit \/ PlanDone

-----------------------------------------------------------------------------
(* One processSerpResult call, step by step: the sources are evaluated,    *)
(* then the learnings are synthesised from the prompt.                     *)

\* most items in a search response followed in SpecProcess
MaxItems == 2

\* An item: a page of host 1 or 2 or no url or text that is no URL, with
\* or without markdown
Items ==
    [url : {NoString, <<9>>, <<1, 1>>, <<2, 1>>}, markdown : {NoString, <<1>>, <<2>>}]

\* The scores the evaluator may answer: z.number() has no range, so 1.3 is
\* an answer like 0.2 and 0.8
Scores == {2, 8, 13}

\* The confidences the synthesis may answer, under z.number() as well
Confidences == {7, 12}

ProcessInit ==
    /\ NoTree /\ pq = PlanIdle /\ cnt = CountIdle /\ mg = MergeIdle /\ sv = ServerIdle
    /\ tc = CallsIdle /\ op = NotifyIdle /\ pm = ModelIdle
    /\ \E data \in SeqUpTo(Items, MaxItems), t \in {0, 5, 10}, n \in 1..2 :
         pr = [ProcessIdle EXCEPT !.pc = "evaluating", !.data = data,
                                  !.reliabilityThreshold = t,
                                  !.numFollowUpQuestions = n]

\* await Promise.all(sourceMetadataPromises): every evaluateSourceReliability
\* call has answered or failed
EvaluateSources ==
    /\ pr.pc = "evaluating"
    /\ \E evals \in [1..Len(pr.data) ->
                        {[ok |-> FALSE, score |-> 0]}
                        \cup {[ok |-> TRUE, score |-> s] : s \in Scores}] :
         pr' = [pr EXCEPT !.pc = "synthesising", !.evals = evals]
    /\ UNCHANGED <<setting, node, unit, pq, cnt, mg, sv, tc, op, pm>>

\* numLearnings = 3: the default, which no caller overrides.  It words the
\* prompt and the description of the schema.
NumLearnings == 3

\* The answers of the synthesis: the array of learnings has no length in
\* the schema, so an answer of NumLearnings + 1 learnings is one of them
SynthAnswers ==
    [learnings : SeqUpTo([content : {<<1>>}, confidence : Confidences], 1)
                 \cup {[i \in 1..(NumLearnings + 1) |-> [content |-> <<i>>, confidence |-> 7]]},
     followUpQuestions : SeqUpTo([question : {<<1>>}, priority : {3}], 3)]

\* await generateObject(...) over the prompt: it throws, or it answers and
\* the function returns
Synthesise ==
    /\ pr.pc = "synthesising"
    /\ \/ pr' = [pr EXCEPT !.pc = "failed"]
       \/ \E synth \in SynthAnswers :
            pr' = [pr EXCEPT !.pc = "returned",
                      !.out = ProcessSerpResult(<<1>>, pr.data, pr.evals, synth,
                                  pr.numFollowUpQuestions, pr.reliabilityThreshold)]
    /\ UNCHANGED <<setting, node, unit, pq, cnt, mg, sv, tc, op, pm>>

ProcessNext == EvaluateSources \/ Synthesise

-----------------------------------------------------------------------------
(* The recursion walked as a call stack, one unit at a time, counting the  *)
(* queries planned.  A frame is an invocation: its depth, its breadth and  *)
(* the queries of its round that have not run yet.  Every planner returns  *)
(* at most numQueries queries here.                                        *)

\* z.number().min(1).max(5) on depth and on breadth
DepthLimit == 5

BreadthLimit == 5

CountFrame(depth, breadth) ==
    [depth |-> depth, breadth |-> breadth, planning |-> TRUE, left |-> 0]

CountInit ==
    /\ NoTree /\ pq = PlanIdle /\ pr = ProcessIdle /\ mg = MergeIdle /\ sv = ServerIdle
    /\ tc = CallsIdle /\ op = NotifyIdle /\ pm = ModelIdle
    /\ \E d \in 1..DepthLimit, b \in 1..BreadthLimit :
         cnt = [depth |-> d, breadth |-> b, stack |-> <<CountFrame(10 * d, b)>>,
                planned |-> 0, pc |-> "running"]

\* generateSerpQueries of the invocation on top returns k queries
CountPlan ==
    LET top == Len(cnt.stack)
    IN  /\ top > 0
        /\ cnt.stack[top].planning
        /\ \E k \in 0..cnt.stack[top].breadth :
             cnt' = [cnt EXCEPT !.planned = @ + k,
                                !.stack[top].planning = FALSE,
                                !.stack[top].left = k]
        /\ UNCHANGED <<setting, node, unit, pq, pr, mg, sv, tc, op, pm>>

\* The next query of the invocation on top runs: it recurses when
\* newDepth > 0 and nothing failed, else it returns
CountUnit ==
    LET top == Len(cnt.stack)
        f == cnt.stack[top]
    IN  /\ top > 0
        /\ ~f.planning
        /\ f.left > 0
        /\ \/ /\ NewDepth(f.depth) > 0
              /\ cnt' = [cnt EXCEPT !.stack =
                            Append([@ EXCEPT ![top].left = f.left - 1],
                                   CountFrame(NewDepth(f.depth), CeilHalf(f.breadth)))]
           \/ cnt' = [cnt EXCEPT !.stack[top].left = f.left - 1]
        /\ UNCHANGED <<setting, node, unit, pq, pr, mg, sv, tc, op, pm>>

\* Every query of the invocation on top has run: it returns
CountReturn ==
    LET top == Len(cnt.stack)
    IN  /\ top > 0
        /\ ~cnt.stack[top].planning
        /\ cnt.stack[top].left = 0
        /\ cnt' = [cnt EXCEPT !.stack = SubSeq(@, 1, top - 1),
                              !.pc = IF top = 1 THEN "done" ELSE @]
        /\ UNCHANGED <<setting, node, unit, pq, pr, mg, sv, tc, op, pm>>

CountNext == CountPlan \/ CountUnit \/ CountReturn

-----------------------------------------------------------------------------
(* The merge alone: the results of the units of one invocation are         *)
(* combined, and the combined result is combined once more as the only     *)
(* result of a round.                                                      *)

\* most results combined, and most entries of a list of one result
MaxResults == 2

MaxEntries == 2

\* Weighted learnings: two objects of the same content and reliability, as
\* two units build them from the same answer of the synthesis, and one other
WeightedObjects ==
    {[content |-> <<1>>, reliability |-> 7, ref |-> <<1, 1>>],
     [content |-> <<1>>, reliability |-> 7, ref |-> <<2, 1>>],
     [content |-> <<2>>, reliability |-> 7, ref |-> <<3, 1>>]}

\* Source metadata: two pages, each scored 0.9 or 0.3
Metas ==
    {[url |-> <<h, 1>>, domain |-> <<h>>, reliabilityScore |-> sc] :
        h \in 1..2, sc \in {3, 9}}

\* What a unit returns: learnings and weightedLearnings go together, and the
\* urls visited are in the order of their pages
BranchResults ==
    {[learnings |-> [i \in 1..Len(w) |-> w[i].content],
      learningReliabilities |-> [i \in 1..Len(w) |-> w[i].reliability],
      visitedUrls |-> [i \in 1..Len(m) |-> m[i].url],
      sourceMetadata |-> m,
      weightedLearnings |-> w] :
        w \in SeqUpTo(WeightedObjects, MaxEntries), m \in SeqUpTo(Metas, MaxEntries)}

MergeInit ==
    /\ NoTree /\ pq = PlanIdle /\ pr = ProcessIdle /\ cnt = CountIdle /\ sv = ServerIdle
    /\ tc = CallsIdle /\ op = NotifyIdle /\ pm = ModelIdle
    /\ \E results \in SeqUpTo(BranchResults, MaxResults) :
         mg = [MergeIdle EXCEPT !.pc = "ready", !.results = results]

\* const combinedResults = {...}; return combinedResults
MergeResults ==
    /\ mg.pc = "ready"
    /\ mg' = [mg EXCEPT !.pc = "merged", !.merged = Merge(mg.results)]
    /\ UNCHANGED <<setting, node, unit, pq, pr, cnt, sv, tc, op, pm>>

\* The same step over the one result that the first merge returned
MergeAgain ==
    /\ mg.pc = "merged"
    /\ mg' = [mg EXCEPT !.pc = "again", !.again = Merge(<<mg.merged>>)]
    /\ UNCHANGED <<setting, node, unit, pq, pr, cnt, sv, tc, op, pm>>

MergeNext == MergeResults \/ MergeAgain

-----------------------------------------------------------------------------
(* One call of the deep-research tool.  The server validates the arguments *)
(* against the schema of the tool, then runs the handler: local Firecrawl  *)
(* is started if it is configured, deepResearch and writeFinalReport run,  *)
(* and the finally block stops what the handler marked as started.         *)
(* depth and breadth are kept in tenths here: 25 stands for 2.5.           *)

\* The numbers a client may send as depth or as breadth: 0, 1, 2.5, 5, 6
ToolNumbers == {0, 10, 25, 50, 60}

ToolQueries == {NoString, <<1>>}

\* z.number().min(1).max(5) with the limits of depth and breadth
InRange(n, limit) == n >= 10 /\ n <= 10 * limit

\* The schema of the tool: query: z.string().min(1), depth and breadth:
\* z.number().min(1).max(5)
SchemaAccepts(query, depth, breadth) ==
    /\ Len(query) >= 1
    /\ InRange(depth, DepthLimit)
    /\ InRange(breadth, BreadthLimit)

ServerInit ==
    /\ NoTree /\ pq = PlanIdle /\ pr = ProcessIdle /\ cnt = CountIdle /\ mg = MergeIdle
    /\ tc = CallsIdle /\ op = NotifyIdle /\ pm = ModelIdle
    /\ \E query \in ToolQueries, depth \in ToolNumbers, breadth \in ToolNumbers,
          local \in BOOLEAN :
         sv = [ServerIdle EXCEPT !.pc = "validating", !.query = query,
                                 !.depth = depth, !.breadth = breadth,
                                 !.local = local]

\* The arguments are parsed against the schema before the handler is called
Validate ==
    /\ sv.pc = "validating"
    /\ sv' = IF SchemaAccepts(sv.query, sv.depth, sv.breadth)
             THEN [sv EXCEPT !.pc = "starting"]
             ELSE [sv EXCEPT !.pc = "done", !.response = "invalid"]
    /\ UNCHANGED <<setting, node, unit, pq, pr, cnt, mg, tc, op, pm>>

\* The client goes away while the handler runs: from then on every
\* `await serverInstance.server.notification(...)` rejects
Disconnect ==
    /\ sv.pc \in {"starting", "waiting", "researching", "finally"}
    /\ sv.connected
    /\ sv' = [sv EXCEPT !.connected = FALSE]
    /\ UNCHANGED <<setting, node, unit, pq, pr, cnt, mg, tc, op, pm>>

\* if (Config.firecrawl.baseUrl?.includes('localhost')) {
\*   await startLocalFirecrawl(serverInstance); firecrawlStarted = true }
\* The start of startLocalFirecrawl: its first notification, then
\* `docker-compose up -d`.  Either may reject; the catch block notifies
\* and rethrows, and the catch of the handler makes the error response.
StartFirecrawl ==
    /\ sv.pc = "starting"
    /\ \/ /\ ~sv.local
          /\ sv' = [sv EXCEPT !.pc = "researching"]
       \/ /\ sv.local
          /\ \/ sv' = [sv EXCEPT !.pc = "finally", !.response = "error"]
             \/ /\ sv.connected
                /\ sv' = [sv EXCEPT !.pc = "waiting", !.ups = @ + 1]
    /\ UNCHANGED <<setting, node, unit, pq, pr, cnt, mg, tc, op, pm>>

\* health checks made at most before maxWaitTime is over
MaxChecks == 3

\* What a health check ends with: a status, the abort of its 2 s timeout,
\* a connection error
CheckAnswers == {"ok", "404", "500", "timeout", "refused"}

\* response.ok || response.status === 404
IsReadyAnswer(answer) == answer \in {"ok", "404"}

\* One round of the while loop of startLocalFirecrawl, and what follows
\* the loop when the round ends it.  A check that finds the API ready
\* ends the loop, startLocalFirecrawl returns and the handler sets
\* firecrawlStarted.  After any other check the loop notifies, waits
\* `interval` and checks again, until maxWaitTime is over: then
\* startLocalFirecrawl throws.  The notifications of the loop are awaited
\* with no catch of their own: where they reject, startLocalFirecrawl
\* throws at once (before the check, when it is the notification ahead of
\* the loop).
HealthCheck ==
    /\ sv.pc = "waiting"
    /\ \/ /\ ~sv.connected
          /\ sv' = [sv EXCEPT !.pc = "finally", !.response = "error"]
       \/ \E answer \in CheckAnswers :
            LET checked == [sv EXCEPT !.checks = @ + 1, !.answer = answer]
            IN  IF ~sv.connected
                THEN sv' = [checked EXCEPT !.pc = "finally", !.response = "error"]
                ELSE IF IsReadyAnswer(answer)
                THEN sv' = [checked EXCEPT !.pc = "researching",
                                           !.firecrawlStarted = TRUE]
                ELSE IF checked.checks < MaxChecks
                THEN sv' = checked
                ELSE sv' = [checked EXCEPT !.pc = "finally", !.response = "error"]
    /\ UNCHANGED <<setting, node, unit, pq, pr, cnt, mg, tc, op, pm>>

\* await deepResearch({query, depth, breadth, onProgress}), then
\* writeFinalReport, the writing of the sources file inside a try block of
\* its own, and the response; an error of deepResearch or of
\* writeFinalReport is the error response of the catch block.  onProgress
\* catches the rejection of its notification.
Research ==
    /\ sv.pc = "researching"
    /\ \/ sv' = [sv EXCEPT !.pc = "finally", !.research = "rejected",
                           !.response = "error"]
       \/ sv' = [sv EXCEPT !.pc = "finally", !.research = "resolved",
                           !.report = "rejected", !.response = "error"]
       \/ \E saved \in {"none", "written", "failed"} :
            sv' = [sv EXCEPT !.pc = "finally", !.research = "resolved",
                             !.report = "resolved", !.saved = saved,
                             !.response = "report"]
    /\ UNCHANGED <<setting, node, unit, pq, pr, cnt, mg, tc, op, pm>>

\* finally { if (firecrawlStarted) await stopLocalFirecrawl(serverInstance) }
\* stopLocalFirecrawl first calls startLocalFirecrawl again; its error is
\* caught and `docker-compose down` is skipped.  Otherwise the command runs.
\* The catch block of stopLocalFirecrawl awaits a notification: where that
\* rejects, stopLocalFirecrawl rejects, and the finally block with it, so
\* that the promise of the handler rejects in place of its response.
Finally ==
    /\ sv.pc = "finally"
    /\ \/ /\ ~sv.firecrawlStarted
          /\ sv' = [sv EXCEPT !.pc = "done"]
       \/ /\ sv.firecrawlStarted
          /\ sv.connected
          /\ \/ sv' = [sv EXCEPT !.pc = "done", !.stops = @ + 1]
             \/ sv' = [sv EXCEPT !.pc = "done", !.stops = @ + 1, !.ups = @ + 1]
             \/ sv' = [sv EXCEPT !.pc = "done", !.stops = @ + 1, !.ups = @ + 1,
                                 !.downs = @ + 1]
       \/ /\ sv.firecrawlStarted
          /\ ~sv.connected
          /\ sv' = [sv EXCEPT !.pc = "done", !.stops = @ + 1,
                              !.response = "thrown", !.threw = TRUE]
    /\ UNCHANGED <<setting, node, unit, pq, pr, cnt, mg, tc, op, pm>>

ServerNext == Validate \/ Disconnect \/ StartFirecrawl \/ HealthCheck \/ Research \/ Finally

-----------------------------------------------------------------------------
(* Two calls of the deep-research tool that overlap in time, with local    *)
(* Firecrawl configured.  Each call runs the handler of the tool; the      *)
(* containers are one resource on the host, which `docker-compose up -d`   *)
(* brings up and `docker-compose down` takes down for every call.  The     *)
(* client stays connected here.                                            *)

Calls == {1, 2}

\* What a health check can end with: nothing answers on the port when the
\* containers are down
AnswersWhen(up) == IF up THEN CheckAnswers ELSE {"timeout", "refused"}

TwoInit ==
    /\ NoTree /\ pq = PlanIdle /\ pr = ProcessIdle /\ cnt = CountIdle /\ mg = MergeIdle
    /\ sv = ServerIdle /\ op = NotifyIdle /\ pm = ModelIdle
    /\ tc = CallsIdle

\* A request for the tool arrives and its handler starts:
\* let firecrawlStarted = false
TwoArrive(c) ==
    /\ tc.pc[c] = "idle"
    /\ tc' = [tc EXCEPT !.pc[c] = "starting"]
    /\ UNCHANGED <<setting, node, unit, pq, pr, cnt, mg, sv, op, pm>>

\* await startLocalFirecrawl(serverInstance), up to the end of
\* `docker-compose up -d`: the command brings the containers up, or fails
\* and the handler goes to its catch and finally blocks with
\* firecrawlStarted false
TwoStart(c) ==
    /\ tc.pc[c] = "starting"
    /\ \/ tc' = [tc EXCEPT !.pc[c] = "waiting", !.up = TRUE, !.ups = @ + 1]
       \/ tc' = [tc EXCEPT !.pc[c] = "finally"]
    /\ UNCHANGED <<setting, node, unit, pq, pr, cnt, mg, sv, op, pm>>

\* One round of the while loop of startLocalFirecrawl in call c; a check
\* that finds the API ready ends the loop and the handler sets
\* firecrawlStarted = true
TwoHealthCheck(c) ==
    /\ tc.pc[c] = "waiting"
    /\ \E answer \in AnswersWhen(tc.up) :
         LET checked == [tc EXCEPT !.checks[c] = @ + 1]
         IN  IF IsReadyAnswer(answer)
             THEN tc' = [checked EXCEPT !.pc[c] = "researching",
                                        !.firecrawlStarted[c] = TRUE]
             ELSE IF checked.checks[c] < MaxChecks
             THEN tc' = checked
             ELSE tc' = [checked EXCEPT !.pc[c] = "finally"]
    /\ UNCHANGED <<setting, node, unit, pq, pr, cnt, mg, sv, op, pm>>

\* await deepResearch(...) of call c settles
TwoResearch(c) ==
    /\ tc.pc[c] = "researching"
    /\ \E how \in {"resolved", "rejected"} :
         tc' = [tc EXCEPT !.pc[c] = "finally", !.research[c] = how]
    /\ UNCHANGED <<setting, node, unit, pq, pr, cnt, mg, sv, op, pm>>

\* finally { if (firecrawlStarted) await stopLocalFirecrawl(serverInstance) }
\* of call c.  stopLocalFirecrawl reads no state of any other call: it
\* calls startLocalFirecrawl again and, unless that throws, runs
\* `docker-compose down`, which may fail as any command may.
TwoFinally(c) ==
    /\ tc.pc[c] = "finally"
    /\ \/ /\ ~tc.firecrawlStarted[c]
          /\ tc' = [tc EXCEPT !.pc[c] = "done"]
       \/ /\ tc.firecrawlStarted[c]
          /\ \/ tc' = [tc EXCEPT !.pc[c] = "done"]
             \/ tc' = [tc EXCEPT !.pc[c] = "done", !.up = TRUE, !.ups = @ + 1]
             \/ tc' = [tc EXCEPT !.pc[c] = "done", !.up = FALSE, !.ups = @ + 1,
                                 !.downs = @ + 1]
    /\ UNCHANGED <<setting, node, unit, pq, pr, cnt, mg, sv, op, pm>>

TwoNext ==
    \E c \in Calls :
        TwoArrive(c) \/ TwoStart(c) \/ TwoHealthCheck(c) \/ TwoResearch(c)
            \/ TwoFinally(c)

-----------------------------------------------------------------------------
(* The onProgress callback that the handler of the tool passes to          *)
(* deepResearch.  deepResearch calls it synchronously with its progress    *)
(* record; the notification that it issues settles later, and rejects      *)
(* when the client has gone.                                               *)

\* most calls of onProgress in one run of the model
MaxEvents == 3

\* progress.currentQuery of a record that has none
NoQuery == <<0>>

\* The progress records that deepResearch may pass
ProgressRecords ==
    [currentDepth : 1..2, totalDepth : {2}, currentBreadth : 1..2,
     totalBreadth : {2}, completedQueries : 0..1, totalQueries : {1},
     currentQuery : {NoQuery, NoString, <<1>>}]

\* `Depth ${currentDepth}/${totalDepth}, Query ${completedQueries}/
\* ${totalQueries}: ${currentQuery || ''}`: the text is made of these five
\* values, and a record without a query reads as one with the empty query
ProgressMsg(progress) ==
    <<progress.currentDepth, progress.totalDepth, progress.completedQueries,
      progress.totalQueries,
      IF progress.currentQuery = NoQuery THEN NoString ELSE progress.currentQuery>>

\* Changed that holds for every message
AlwaysChanged(progressMsg, currentProgress) == TRUE

\* if (progressMsg !== currentProgress)
Changed(progressMsg, currentProgress) == progressMsg # currentProgress

NotifyInit ==
    /\ NoTree /\ pq = PlanIdle /\ pr = ProcessIdle /\ cnt = CountIdle /\ mg = MergeIdle
    /\ sv = ServerIdle /\ tc = CallsIdle /\ pm = ModelIdle
    /\ op = [NotifyIdle EXCEPT !.pc = "researching"]

\* The client goes away: the notifications that have not settled, and
\* those issued from now on, reject
NotifyDisconnect ==
    /\ op.pc = "researching"
    /\ op.connected
    /\ op' = [op EXCEPT !.connected = FALSE]
    /\ UNCHANGED <<setting, node, unit, pq, pr, cnt, mg, sv, tc, pm>>

\* deepResearch calls onProgress(progress): the callback formats the
\* message and, when it has changed, stores it, logs it and issues the
\* notification, to whose promise it attaches a catch; it returns
OnProgress ==
    /\ op.pc = "researching"
    /\ Len(op.got) < MaxEvents
    /\ \E progress \in ProgressRecords :
         LET progressMsg == ProgressMsg(progress)
             called == [op EXCEPT !.got = Append(@, progressMsg)]
         IN  IF Changed(progressMsg, op.currentProgress)
             THEN op' = [called EXCEPT !.currentProgress = progressMsg,
                                       !.sent = Append(@, progressMsg),
                                       !.pending = Append(@, progressMsg)]
             ELSE op' = called
    /\ UNCHANGED <<setting, node, unit, pq, pr, cnt, mg, sv, tc, pm>>

\* The promise of the oldest notification settles; where it rejects, the
\* callback of .catch logs the error
NotificationSettles ==
    /\ op.pending # <<>>
    /\ op' = IF op.connected
             THEN [op EXCEPT !.pending = Tail(@), !.delivered = @ + 1]
             ELSE [op EXCEPT !.pending = Tail(@), !.failed = @ + 1,
                             !.logged = @ + 1]
    /\ UNCHANGED <<setting, node, unit, pq, pr, cnt, mg, sv, tc, pm>>

\* `await deepResearch(...)` settles and the handler makes its response:
\* the report, or the error response of its catch block
ResearchSettles ==
    /\ op.pc = "researching"
    /\ \/ op' = [op EXCEPT !.pc = "done", !.research = "resolved",
                           !.response = "report"]
       \/ op' = [op EXCEPT !.pc = "done", !.research = "rejected",
                           !.response = "error"]
    /\ UNCHANGED <<setting, node, unit, pq, pr, cnt, mg, sv, tc, pm>>

NotifyNext == NotifyDisconnect \/ OnProgress \/ NotificationSettles \/ ResearchSettles

-----------------------------------------------------------------------------
(* The choice of the language model (ai/providers.ts).  A string is the    *)
(* sequence of its pieces: a word, a blank " ", or one of the separators   *)
(* ":" and "/".  A variable of the environment is Unset or a string.       *)

Unset == "<unset>"

\* process.env: each API key is not set, empty, blank or a key, and
\* OPENAI_MODEL is not set or names a model
Envs ==
    [GOOGLE_API_KEY : {Unset, "", " ", "sk-1"},
     OPENAI_API_KEY : {Unset, "", " ", "sk-1"},
     ANTHROPIC_API_KEY : {Unset, "", " ", "sk-1"},
     XAI_API_KEY : {Unset, "", " ", "sk-1"},
     OPENAI_MODEL : {Unset, "gpt-4o"}]

\* HasKey without the test for a blank value
KeyDefined(value) == value # Unset

\* process.env.X && process.env.X.trim() !== '': the value is set, is not
\* empty and, with its blanks trimmed, is not empty
HasKey(value) ==
    value # Unset /\ value # "" /\ (IF value = " " THEN "" ELSE value) # ""

RECURSIVE InsertByIntelligence(_, _)
\* x goes behind every entry whose intelligence is not lower
InsertByIntelligence(x, s) ==
    IF s = <<>> THEN <<x>>
    ELSE IF Head(s).intelligence >= x.intelligence
         THEN <<Head(s)>> \o InsertByIntelligence(x, Tail(s))
         ELSE <<x>> \o s

RECURSIVE SortByIntelligence(_)
\* providers.sort((a, b) => b.intelligence - a.intelligence)
SortByIntelligence(s) ==
    IF s = <<>> THEN <<>>
    ELSE InsertByIntelligence(s[Len(s)], SortByIntelligence(SubSeq(s, 1, Len(s) - 1)))

\* getAvailableProviders(): the entries pushed for every provider whose key
\* is there, in the order of the pushes, then sorted
GetAvailableProviders(env) ==
    SortByIntelligence(
        (IF HasKey(env["GOOGLE_API_KEY"])
         THEN <<[provider |-> "google", model |-> "gemini-2.5-pro", intelligence |-> 100],
                [provider |-> "google", model |-> "gemini-2.5-flash", intelligence |-> 95],
                [provider |-> "google", model |-> "gemini-2.0-flash", intelligence |-> 90]>>
         ELSE <<>>)
        \o (IF HasKey(env["OPENAI_API_KEY"])
            THEN <<[provider |-> "openai", model |-> "o1", intelligence |-> 98],
                   [provider |-> "openai", model |-> "gpt-4", intelligence |-> 85],
                   [provider |-> "openai", model |-> "gpt-4-turbo", intelligence |-> 88],
                   [provider |-> "openai", model |-> "gpt-3.5-turbo", intelligence |-> 70]>>
            ELSE <<>>)
        \o (IF HasKey(env["ANTHROPIC_API_KEY"])
            THEN <<[provider |-> "anthropic", model |-> "claude-3-5-sonnet-20241022",
                    intelligence |-> 92],
                   [provider |-> "anthropic", model |-> "claude-3-haiku-20240307",
                    intelligence |-> 75]>>
            ELSE <<>>)
        \o (IF HasKey(env["XAI_API_KEY"])
            THEN <<[provider |-> "xai", model |-> "grok-2-latest", intelligence |-> 80]>>
            ELSE <<>>))

RECURSIVE TrimStart(_)
TrimStart(text) ==
    IF text # <<>> /\ Head(text) = " " THEN TrimStart(Tail(text)) ELSE text

RECURSIVE TrimEnd(_)
TrimEnd(text) ==
    IF text # <<>> /\ text[Len(text)] = " "
    THEN TrimEnd(SubSeq(text, 1, Len(text) - 1)) ELSE text

\* text.trim()
Trim(text) == TrimEnd(TrimStart(text))

\* spec.includes(':') || spec.includes('/')
HasProvider(text) == \E i \in 1..Len(text) : text[i] \in {":", "/"}

RECURSIVE SplitAll(_)
\* text.split(/[:/]/)
SplitAll(text) ==
    IF ~HasProvider(text) THEN <<text>>
    ELSE LET i == CHOOSE k \in 1..Len(text) :
                    /\ text[k] \in {":", "/"}
                    /\ \A j \in 1..(k - 1) : text[j] \notin {":", "/"}
         IN  <<SubSeq(text, 1, i - 1)>> \o SplitAll(SubSeq(text, i + 1, Len(text)))

\* text.toLowerCase(): the words with capitals are "OpenAI" and "XAI"
ToLowerCase(text) ==
    [i \in 1..Len(text) |-> IF text[i] = "OpenAI" THEN "openai"
                            ELSE IF text[i] = "XAI" THEN "xai"
                            ELSE text[i]]

\* The supported providers, and the variable that holds the key of each
Supported == {"openai", "xai", "anthropic", "google"}

KeyOf(provider) ==
    CASE provider = "openai" -> "OPENAI_API_KEY"
      [] provider = "xai" -> "XAI_API_KEY"
      [] provider = "anthropic" -> "ANTHROPIC_API_KEY"
      [] provider = "google" -> "GOOGLE_API_KEY"

\* const defaults = {...}; (defaults as any)[provider] || defaults.openai
DefaultName(env, provider) ==
    LET openai == IF env["OPENAI_MODEL"] \in {Unset, ""} THEN <<"o1">>
                  ELSE <<env["OPENAI_MODEL"]>>
    IN  CASE provider = <<"anthropic">> -> <<"claude-3-5-sonnet-20241022">>
          [] provider = <<"google">> -> <<"gemini-2.5-pro">>
          [] provider = <<"xai">> -> <<"grok-2-latest">>
          [] OTHER -> openai

Thrown(error) == [ok |-> FALSE, provider |-> "", model |-> <<>>, error |-> error]

Returned(provider, modelName) ==
    [ok |-> TRUE, provider |-> provider, model |-> modelName, error |-> ""]

\* The switch of getModel: the model of the provider, or the error thrown
\* where the key of the provider is missing or the provider is not one of
\* the cases
SwitchProvider(env, provider, modelName) ==
    IF Len(provider) = 1 /\ provider[1] \in Supported
    THEN IF ~HasKey(env[KeyOf(provider[1])])
         THEN Thrown(KeyOf(provider[1]) \o " is required but not set")
         ELSE Returned(provider[1], modelName)
    ELSE Thrown("Unsupported provider in model specifier")

\* getModel once the specifier is not empty: spec.split(/[:/]/, 2), the
\* provider `auto` replaced by the provider of the best entry, the name
\* defaulted
GetModelOf(env, spec) ==
    LET parts == IF HasProvider(spec) THEN SubSeq(SplitAll(spec), 1, 2)
                 ELSE <<<<"auto">>, spec>>
        providerRaw == parts[1]
        nameRaw == parts[2]
        named == ToLowerCase(IF providerRaw = <<>> THEN <<"auto">> ELSE providerRaw)
        available == GetAvailableProviders(env)
        provider == IF named = <<"auto">> /\ available # <<>>
                    THEN <<available[1].provider>> ELSE named
        modelName == IF Len(nameRaw) > 0 THEN nameRaw ELSE DefaultName(env, provider)
    IN  IF named = <<"auto">> /\ available = <<>>
        THEN Thrown("No API keys found")
        ELSE SwitchProvider(env, provider, modelName)

\* getDefaultModel(): getModel(`${best.provider}:${best.model}`)
GetDefaultModel(env) ==
    LET available == GetAvailableProviders(env)
    IN  IF available = <<>> THEN Thrown("No API keys found")
        ELSE GetModelOf(env, <<available[1].provider, ":", available[1].model>>)

\* getModel(modelSpecifier): const spec = (modelSpecifier || '').trim()
GetModel(env, given, text) ==
    LET spec == Trim(IF given THEN text ELSE <<>>)
    IN  IF spec = <<>> THEN GetDefaultModel(env) ELSE GetModelOf(env, spec)

\* The specifiers that getModel is called with
Specifiers ==
    {<<>>, <<" ">>, <<"gpt-4">>, <<"openai", ":", "gpt-4">>,
     <<"OpenAI", "/", "gpt-4">>, <<"openai", ":">>, <<"anthropic", ":">>,
     <<"google", ":", "gemini-2.0-flash">>, <<" ", "xai", ":", "grok-2-latest", " ">>,
     <<"mistral", ":", "large">>, <<"meta", "/", "llama">>, <<":", "gpt-4">>,
     <<"auto", ":", "gpt-4">>, <<"XAI", ":", "grok-2-latest">>,
     <<"openai", ":", "gpt-4", ":", "x">>}

ModelInit ==
    /\ NoTree /\ pq = PlanIdle /\ pr = ProcessIdle /\ cnt = CountIdle /\ mg = MergeIdle
    /\ sv = ServerIdle /\ tc = CallsIdle /\ op = NotifyIdle
    /\ \E env \in Envs :
         \/ \E fn \in {"getAvailableProviders", "getDefaultModel"} :
              pm = [ModelIdle EXCEPT !.pc = "called", !.fn = fn, !.env = env]
         \/ pm = [ModelIdle EXCEPT !.pc = "called", !.fn = "getModel", !.env = env]
         \/ \E text \in Specifiers :
              pm = [ModelIdle EXCEPT !.pc = "called", !.fn = "getModel",
                                     !.env = env, !.given = TRUE, !.text = text]

CallGetAvailableProviders ==
    /\ pm.pc = "called" /\ pm.fn = "getAvailableProviders"
    /\ pm' = [pm EXCEPT !.pc = "returned",
                        !.available = GetAvailableProviders(pm.env)]
    /\ UNCHANGED <<setting, node, unit, pq, pr, cnt, mg, sv, tc, op>>

CallGetDefaultModel ==
    /\ pm.pc = "called" /\ pm.fn = "getDefaultModel"
    /\ pm' = [pm EXCEPT !.pc = "returned", !.out = GetDefaultModel(pm.env)]
    /\ UNCHANGED <<setting, node, unit, pq, pr, cnt, mg, sv, tc, op>>

CallGetModel ==
    /\ pm.pc = "called" /\ pm.fn = "getModel"
    /\ pm' = [pm EXCEPT !.pc = "returned",
                        !.out = GetModel(pm.env, pm.given, pm.text)]
    /\ UNCHANGED <<setting, node, unit, pq, pr, cnt, mg, sv, tc, op>>

ModelNext == CallGetAvailableProviders \/ CallGetDefaultModel \/ CallGetModel

-----------------------------------------------------------------------------
(* Specifications                                                          *)

\* deepResearch over every answer of the collaborators, on small trees
Init ==
    /\ TreeInit([depth : WholeDepths(MaxDepth), breadth : 1..MaxBreadth,
                 tokenBudget : {NoBudget},
                 concurrency : {ConcurrencyLimit}], {"varied"})
    /\ pq = PlanIdle /\ pr = ProcessIdle /\ cnt = CountIdle /\ mg = MergeIdle /\ sv = ServerIdle
    /\ tc = CallsIdle /\ op = NotifyIdle /\ pm = ModelIdle

Next == TreeNext

Spec == Init /\ [][Next]_vars

\* The same runs where every pending call settles in the end: a collaborator
\* returns or fails, and the event loop runs what waits for it
SpecFair == Init /\ [][Next]_vars /\ WF_vars(Next)

\* deepResearch called with depth 1.5, which is a number >= 1 as 1 and 2
\* are, with the same fairness
HalfInit ==
    /\ TreeInit([depth : {15}, breadth : 1..MaxBreadth, tokenBudget : {NoBudget},
                 concurrency : {ConcurrencyLimit}],
                {"varied"})
    /\ pq = PlanIdle /\ pr = ProcessIdle /\ cnt = CountIdle /\ mg = MergeIdle /\ sv = ServerIdle
    /\ tc = CallsIdle /\ op = NotifyIdle /\ pm = ModelIdle

SpecHalf == HalfInit /\ [][TreeNext]_vars /\ WF_vars(TreeNext)

\* deepResearch on wide rounds, where the limiter has a queue
WideInit ==
    /\ TreeInit([depth : WholeDepths(MaxDepth), breadth : {MaxWide},
                 tokenBudget : {NoBudget},
                 concurrency : {ConcurrencyLimit}], {"plain"})
    /\ pq = PlanIdle /\ pr = ProcessIdle /\ cnt = CountIdle /\ mg = MergeIdle /\ sv = ServerIdle
    /\ tc = CallsIdle /\ op = NotifyIdle /\ pm = ModelIdle

SpecWide == WideInit /\ [][TreeNext]_vars

\* the highest firecrawlConfig.concurrency followed in SpecLimit
MaxLimit == 2

\* Calls under every concurrency from 1 on.  Every collaborator call
\* settles and the event loop runs every continuation that is ready: a
\* step that can be taken is taken in the end.
LimitInit ==
    /\ TreeInit([depth : WholeDepths(MaxDepth), breadth : 1..MaxBreadth,
                 tokenBudget : {NoBudget}, concurrency : 1..MaxLimit], {"plain"})
    /\ pq = PlanIdle /\ pr = ProcessIdle /\ cnt = CountIdle /\ mg = MergeIdle /\ sv = ServerIdle
    /\ tc = CallsIdle /\ op = NotifyIdle /\ pm = ModelIdle

SpecLimit == LimitInit /\ [][TreeNext]_vars /\ WF_vars(TreeNext)

\* Calls in which every sibling branch finds the same page
SharedInit ==
    /\ TreeInit([depth : WholeDepths(MaxDepth), breadth : 1..MaxBreadth,
                 tokenBudget : {NoBudget},
                 concurrency : {ConcurrencyLimit}], {"shared"})
    /\ pq = PlanIdle /\ pr = ProcessIdle /\ cnt = CountIdle /\ mg = MergeIdle /\ sv = ServerIdle
    /\ tc = CallsIdle /\ op = NotifyIdle /\ pm = ModelIdle

SpecShared == SharedInit /\ [][TreeNext]_vars

\* Calls in which every search finds a page of its own, and the evaluator
\* fails or scores the page below or above the threshold of the query
GradedInit ==
    /\ TreeInit([depth : WholeDepths(MaxDepth), breadth : 1..MaxBreadth,
                 tokenBudget : {NoBudget},
                 concurrency : {ConcurrencyLimit}], {"graded"})
    /\ pq = PlanIdle /\ pr = ProcessIdle /\ cnt = CountIdle /\ mg = MergeIdle /\ sv = ServerIdle
    /\ tc = CallsIdle /\ op = NotifyIdle /\ pm = ModelIdle

SpecGraded == GradedInit /\ [][TreeNext]_vars

\* deepResearch called with a tokenBudget below the usage of one planning
\* call, every collaborator answering in full
BudgetInit ==
    /\ TreeInit([depth : WholeDepths(MaxDepth), breadth : 1..MaxBreadth,
                 tokenBudget : {TestBudget},
                 concurrency : {ConcurrencyLimit}], {"plain"})
    /\ pq = PlanIdle /\ pr = ProcessIdle /\ cnt = CountIdle /\ mg = MergeIdle /\ sv = ServerIdle
    /\ tc = CallsIdle /\ op = NotifyIdle /\ pm = ModelIdle

SpecBudget == BudgetInit /\ [][TreeNext]_vars

\* deepResearch called with an onProgress callback that may throw
ProgressInit ==
    /\ TreeInit([depth : WholeDepths(MaxDepth), breadth : 1..MaxBreadth,
                 tokenBudget : {NoBudget},
                 concurrency : {ConcurrencyLimit}], {"throwing"})
    /\ pq = PlanIdle /\ pr = ProcessIdle /\ cnt = CountIdle /\ mg = MergeIdle /\ sv = ServerIdle
    /\ tc = CallsIdle /\ op = NotifyIdle /\ pm = ModelIdle

SpecProgress == ProgressInit /\ [][TreeNext]_vars

SpecPlan == PlanInit /\ [][PlanNext]_vars

SpecProcess == ProcessInit /\ [][ProcessNext]_vars

SpecCount == CountInit /\ [][CountNext]_vars

SpecMerge == MergeInit /\ [][MergeNext]_vars

SpecServer == ServerInit /\ [][ServerNext]_vars

\* Two overlapping calls of the tool
SpecTwo == TwoInit /\ [][TwoNext]_vars

\* The onProgress callback of the handler during one deepResearch call
SpecNotify == NotifyInit /\ [][NotifyNext]_vars

\* One call of getAvailableProviders, getDefaultModel or getModel
SpecModel == ModelInit /\ [][ModelNext]_vars

-----------------------------------------------------------------------------
(* Claims about the failure of a collaborator                              *)

\* The search of unit u threw
SearchFailed(u) == Settled(u) /\ unit[u].how = "searchError"

\* Unit u is past its search and its processSerpResult call, both answered
Processed(u) ==
    \/ unit[u].pc = "recursing"
    \/ unit[u].pc \in {"returned", "rejected"}
       /\ unit[u].how \in {"terminal", "child", "childError"}

\* generateSerpQueries of invocation p has answered (a rejected invocation
\* without queries is one whose planner failed)
Planned(p) ==
    \/ node[p].st \in {"running", "resolved"}
    \/ node[p].st = "rejected" /\ node[p].queries # <<>>

AllEmpty(r) ==
    /\ r.learnings = <<>>
    /\ r.visitedUrls = <<>>
    /\ r.sourceMetadata = <<>>
    /\ r.weightedLearnings = <<>>

\* C1: when the search of one query of an invocation failed and a sibling
\* query of the same round got through search and processing, the
\* invocation does not reject, and the result it resolves with holds every
\* learning extracted for the sibling.
C1_SiblingLearningsReturned ==
    \A p \in NodeIds : \A i, j \in 1..Len(node[p].queries) :
        (SearchFailed(Append(p, i)) /\ Processed(Append(p, j)))
        => /\ node[p].st # "rejected"
           /\ node[p].st = "resolved"
              => Range(unit[Append(p, j)].extracted) \subseteq Range(node[p].result.learnings)

\* C2: when the recursive call of a unit has rejected, the unit does not
\* reject: it returns the empty branch result, and the invocation of the
\* unit does not reject because of it.
C2_ChildErrorCaught ==
    \A u \in UnitIds \cap NodeIds :
        (node[u].st = "rejected" /\ Settled(u))
        => /\ unit[u].pc = "returned"
           /\ AllEmpty(unit[u].result)
           /\ node[Parent(u)].st # "rejected"

\* C3: the top-level deepResearch call never rejects, whichever
\* collaborators fail.
C3_RootNeverRejects == node[<<>>].st # "rejected"

\* C4: when the search failed for every query an invocation planned, the
\* invocation does not reject and resolves with empty learnings,
\* visitedUrls, sourceMetadata and weightedLearnings.
C4_AllSearchesFailEmpty ==
    \A p \in NodeIds :
        (/\ Planned(p)
         /\ \A i \in 1..Len(node[p].queries) : SearchFailed(Append(p, i)))
        => /\ node[p].st # "rejected"
           /\ node[p].st = "resolved" => AllEmpty(node[p].result)

\* C4 witness: the root planned two queries, both searches threw, and the
\* root has resolved
C4_Witness ==
    /\ Len(node[<<>>].queries) = 2
    /\ \A i \in 1..2 : SearchFailed(<<i>>)
    /\ node[<<>>].st = "resolved"
    /\ AllEmpty(node[<<>>].result)

\* Unit u has searched and the search answered with no document
FoundNothing(u) ==
    /\ unit[u].pc \notin {"idle", "queued", "searching"}
    /\ unit[u].how # "searchError"
    /\ unit[u].data = <<>>

\* C5: when every search of the run answered with zero documents, the
\* result of the run is empty, whatever the synthesis answered.
C5_NoDocumentsEmpty ==
    (/\ node[<<>>].st = "resolved"
     /\ node[<<>>].queries # <<>>
     /\ \A u \in UnitIds : unit[u].pc # "idle" => FoundNothing(u))
    => AllEmpty(node[<<>>].result)

-----------------------------------------------------------------------------
(* Claims about the limiter and the planner                                *)

\* Units between the call of firecrawl.search and the return of
\* processSerpResult
Working == {u \in UnitIds : unit[u].pc \in {"searching", "processing"}}

\* C6: over the whole tree, at most ConcurrencyLimit units are searching
\* or processing at the same time.
C6_GlobalLimit == Cardinality(Working) <= ConcurrencyLimit

\* C7: generateSerpQueries returns at most numQueries queries, so that an
\* invocation of breadth b runs at most b units.
C7_AtMostNumQueries ==
    pq.pc # "planning"
    => /\ Len(pq.serpQueries) <= pq.breadth
       /\ Len(pq.units) <= pq.breadth

\* C8: the threshold of every returned query is in [0,1]: 1 where the
\* planner gave more than 1, 0 where it gave less than 0, the planner's
\* value otherwise; and it is the threshold processSerpResult is called
\* with for that query.
C8_ThresholdClamped ==
    pq.pc # "planning"
    => /\ Len(pq.serpQueries) = Len(pq.answer)
       /\ \A i \in 1..Len(pq.serpQueries) :
            LET raw == pq.answer[i].reliabilityThreshold
                t == pq.serpQueries[i].reliabilityThreshold
            IN  /\ t >= 0 /\ t <= 10
                /\ raw > 10 => t = 10
                /\ raw < 0 => t = 0
                /\ (raw >= 0 /\ raw <= 10) => t = raw
                /\ i <= Len(pq.units) => pq.units[i].args.reliabilityThreshold = t

\* C8 witness: the planner answered 1.4 and -0.3 and the unit of each
\* query has called processSerpResult, with 1.0 and with 0.0
C8_Witness ==
    /\ pq.pc = "done"
    /\ \E i, j \in 1..Len(pq.units) :
        /\ pq.answer[i].reliabilityThreshold = 14
        /\ pq.units[i].processed
        /\ pq.units[i].args.reliabilityThreshold = 10
        /\ pq.answer[j].reliabilityThreshold = -3
        /\ pq.units[j].processed
        /\ pq.units[j].args.reliabilityThreshold = 0

\* C9: every content block of the prompt of the synthesis comes from a
\* document whose source scored at least the threshold of the query.
C9_PromptFiltered ==
    pr.pc = "returned"
    => \A i \in 1..Len(pr.out.prompt) :
          pr.out.prompt[i].metadata.reliabilityScore >= pr.reliabilityThreshold

\* C10: a run of depth d and breadth b in 1..5 plans at most b * 2^d
\* queries over its whole tree.
C10_QueriesBounded == cnt.planned <= cnt.breadth * 2^cnt.depth

\* C10 as amended: at most b * 2^d queries, except for depth 3 and
\* breadth 5, where the tree can hold 5 + 15 + 30 = 50 queries.
C10_QueriesBoundedButOne ==
    /\ (cnt.depth # 3 \/ cnt.breadth # 5) => cnt.planned <= cnt.breadth * 2^cnt.depth
    /\ (cnt.depth = 3 /\ cnt.breadth = 5) => cnt.planned <= 50

\* C10 witness: a finished run of depth 3 and breadth 5 whose every round
\* returned its breadth of queries: 5 + 15 + 30 queries
C10_Witness ==
    /\ cnt.pc = "done"
    /\ cnt.depth = 3
    /\ cnt.breadth = 5
    /\ cnt.planned = 50

-----------------------------------------------------------------------------
(* Claims about the token budget, the merge and the progress callback      *)

\* C11: when the call has a tokenBudget below the usage that the first
\* planning call reports, the result has budget.reached = TRUE and no
\* recursive deepResearch call is started.
C11_BudgetStopsRecursion ==
    (call.tokenBudget # NoBudget /\ call.tokenBudget < TestUsage)
    => /\ node[<<>>].st = "resolved"
          => /\ "budget" \in DOMAIN node[<<>>].result
             /\ node[<<>>].result.budget.reached
       /\ \A p \in NodeIds \ {<<>>} : node[p].st = "idle"

\* The sourceMetadata of the results of a merge, in merge order
AllMetadata == Flatten([i \in 1..Len(mg.results) |-> mg.results[i].sourceMetadata])

\* C12: the merged sourceMetadata has one entry for every URL of the
\* results and no second one, and the entry of a URL is the last entry of
\* that URL in merge order.
C12_LastSeenWins ==
    mg.pc # "ready"
    => LET out == mg.merged.sourceMetadata
       IN  /\ \A i, j \in 1..Len(out) : out[i].url = out[j].url => i = j
           /\ \A k \in 1..Len(AllMetadata) :
                \E i \in 1..Len(out) : out[i].url = AllMetadata[k].url
           /\ \A i \in 1..Len(out) :
                \E k \in 1..Len(AllMetadata) :
                    /\ AllMetadata[k] = out[i]
                    /\ \A l \in (k + 1)..Len(AllMetadata) :
                          AllMetadata[l].url # out[i].url

\* C12 witness: a result that scores a page 0.9 is merged before a result
\* that scores the same page 0.3, and the merged metadata of the page is 0.3
C12_Witness ==
    /\ mg.pc = "merged"
    /\ Len(mg.results) = 2
    /\ mg.results[1].sourceMetadata =
          <<[url |-> <<1, 1>>, domain |-> <<1>>, reliabilityScore |-> 9]>>
    /\ mg.results[2].sourceMetadata =
          <<[url |-> <<1, 1>>, domain |-> <<1>>, reliabilityScore |-> 3]>>
    /\ mg.merged.sourceMetadata =
          <<[url |-> <<1, 1>>, domain |-> <<1>>, reliabilityScore |-> 3]>>

\* No two entries of the sequence are equal
NoRepeat(s) == \A i, j \in 1..Len(s) : s[i] = s[j] => i = j

\* C13: the merged learnings, visitedUrls and weightedLearnings hold no
\* two entries equal by value: the same string, or the same content and
\* reliability for a weighted learning.
C13_NoEqualEntries ==
    mg.pc # "ready"
    => /\ NoRepeat(mg.merged.learnings)
       /\ NoRepeat(mg.merged.visitedUrls)
       /\ NoRepeat([i \in 1..Len(mg.merged.weightedLearnings) |->
                      <<mg.merged.weightedLearnings[i].content,
                        mg.merged.weightedLearnings[i].reliability>>])

\* C14: merging the one result of a merge gives the learnings, visitedUrls,
\* sourceMetadata and weightedLearnings of that result.
C14_MergeIdempotent ==
    mg.pc = "again"
    => /\ mg.again.learnings = mg.merged.learnings
       /\ mg.again.visitedUrls = mg.merged.visitedUrls
       /\ mg.again.sourceMetadata = mg.merged.sourceMetadata
       /\ mg.again.weightedLearnings = mg.merged.weightedLearnings

\* C14 witness: two results that share a learning and a page were merged,
\* the merge dropped the repeats, and merging again changed nothing
C14_Witness ==
    /\ mg.pc = "again"
    /\ Len(mg.results) = 2
    /\ Len(mg.merged.learnings) = 2
    /\ Len(mg.results[1].learnings) + Len(mg.results[2].learnings) > 2
    /\ Len(mg.merged.sourceMetadata) = 2
    /\ Len(mg.results[1].sourceMetadata) + Len(mg.results[2].sourceMetadata) > 2
    /\ mg.again.learnings = mg.merged.learnings
    /\ mg.again.sourceMetadata = mg.merged.sourceMetadata

\* C15: a throwing onProgress changes nothing.  An invocation whose
\* planner answered rejects only if one of its units rejected, and a unit
\* of the last level whose search and processing succeeded returns the
\* learnings extracted for it.
C15_ProgressErrorIgnored ==
    /\ \A p \in NodeIds :
         (node[p].st = "rejected" /\ node[p].queries # <<>>)
         => \E i \in 1..Len(node[p].queries) : unit[Append(p, i)].pc = "rejected"
    /\ \A u \in UnitIds :
         (/\ Settled(u)
          /\ NewDepth(node[Parent(u)].depth) <= 0
          /\ unit[u].how \notin {"searchError", "processError"})
         => /\ unit[u].pc = "returned"
            /\ Range(unit[u].extracted) \subseteq Range(unit[u].result.learnings)

-----------------------------------------------------------------------------
(* Claims about the tool of the server                                     *)

\* A whole number, kept in tenths
IsInteger(n) == n % 10 = 0

\* C16: a call goes past validation only when its query is not empty and
\* its depth and breadth are integers in 1..5; a call that does not is
\* answered before Firecrawl is started and before deepResearch is called.
C16_OnlyIntegersAccepted ==
    /\ (sv.pc \notin {"idle", "validating"} /\ sv.response # "invalid")
       => /\ sv.query # NoString
          /\ IsInteger(sv.depth) /\ sv.depth >= 10 /\ sv.depth <= 50
          /\ IsInteger(sv.breadth) /\ sv.breadth >= 10 /\ sv.breadth <= 50
    /\ sv.response = "invalid" => (sv.ups = 0 /\ sv.research = "none")

\* C19: with local Firecrawl configured, the containers are up before
\* deepResearch is called, and a handler that brought them up has executed
\* `docker-compose down` by the time it completes, whatever failed.
C19_DownWheneverUp ==
    /\ (sv.local /\ sv.research # "none") => sv.ups > 0
    /\ (sv.pc = "done" /\ sv.ups > 0) => sv.downs > 0

-----------------------------------------------------------------------------
(* Claims about the values and the shape of a run                          *)

\* C17: every reliabilityScore of the sourceMetadata that processSerpResult
\* returns, and every reliability of its weightedLearnings, is in [0,1].
C17_ReliabilityInRange ==
    pr.pc = "returned"
    => /\ \A i \in 1..Len(pr.out.sourceMetadata) :
            /\ pr.out.sourceMetadata[i].reliabilityScore >= 0
            /\ pr.out.sourceMetadata[i].reliabilityScore <= 10
       /\ \A i \in 1..Len(pr.out.weightedLearnings) :
            /\ pr.out.weightedLearnings[i].reliability >= 0
            /\ pr.out.weightedLearnings[i].reliability <= 10

\* The top-level call has resolved or rejected
RootSettled == node[<<>>].st \in {"resolved", "rejected"}

\* C18: deepResearch terminates when every collaborator call settles.  A
\* recursive call runs one level below its parent and never at depth 0 or
\* less, the nesting of invocations never exceeds the depth of the call, and
\* the top-level call settles in the end.  (It holds of the calls of depth
\* 1 and 2, SpecFair; the call of depth 1.5 nests two invocations.)
C18_Terminates ==
    /\ [](\A u \in UnitIds \cap NodeIds :
            node[u].st # "idle"
            => /\ node[u].depth = node[Parent(u)].depth - 10
               /\ node[u].depth > 0)
    /\ [](\A p \in NodeIds : node[p].st # "idle" => 10 * (Len(p) + 1) <= call.depth)
    /\ <>RootSettled

\* The urls of the documents of a search response
UrlsOf(data) == {data[i].url : i \in 1..Len(data)} \ {NoString}

\* C20: in a run of depth 1 where the search and the processing of every
\* query succeeded, every query was passed to firecrawl.search once and no
\* other text was, and the result holds every learning extracted for every
\* query and every url of every document found.
C20_EveryQuerySearched ==
    LET queries == node[<<>>].queries
    IN  (/\ call.depth = 10
         /\ node[<<>>].st = "resolved"
         /\ \A i \in 1..Len(queries) : unit[<<i>>].how = "terminal")
        => /\ \A i \in 1..Len(queries) :
                /\ unit[<<i>>].searched = <<queries[i].query>>
                /\ Range(unit[<<i>>].extracted)
                      \subseteq Range(node[<<>>].result.learnings)
                /\ UrlsOf(unit[<<i>>].data)
                      \subseteq Range(node[<<>>].result.visitedUrls)
           /\ \A u \in UnitIds :
                (Len(u) # 1 \/ u[1] > Len(queries)) => unit[u].searched = <<>>

\* C20 witness: a run of depth 1 and breadth 2 has resolved; both queries
\* found a page and had a learning extracted, and the result has both
C20_Witness ==
    /\ call.depth = 10
    /\ node[<<>>].st = "resolved"
    /\ Len(node[<<>>].queries) = 2
    /\ \A i \in 1..2 :
         /\ unit[<<i>>].how = "terminal"
         /\ unit[<<i>>].searched = <<<<i>>>>
         /\ Len(unit[<<i>>].data) = 1
         /\ Len(unit[<<i>>].extracted) = 1
    /\ Len(node[<<>>].result.learnings) = 2
    /\ Len(node[<<>>].result.visitedUrls) = 2

-----------------------------------------------------------------------------
(* The recursion step, the order of the calls, and what a unit passes on   *)

\* Unit u made the recursive call
Recursed(u) ==
    \/ unit[u].pc = "recursing"
    \/ Settled(u) /\ unit[u].how \in {"child", "childError"}

\* C21: a unit whose search and processing succeeded recurses exactly when
\* depth - 1 > 0.  The recursive call has depth - 1 and ceil(breadth / 2);
\* processSerpResult was asked for ceil(breadth / 2) follow-up questions.
\* A unit that does not recurse has returned its accumulated result, and no
\* invocation and no search exists below it.
C21_RecursesWhileDepthLeft ==
    \A u \in UnitIds :
        LET p == Parent(u)
        IN  /\ unit[u].pc \in {"processing", "recursing"} => unit[u].asked > 0
            /\ unit[u].asked > 0 =>
                  /\ 2 * unit[u].asked >= node[p].breadth
                  /\ 2 * unit[u].asked <= node[p].breadth + 1
            /\ Processed(u) =>
                  /\ Recursed(u) <=> node[p].depth - 10 > 0
                  /\ Recursed(u) =>
                        /\ node[u].st # "idle"
                        /\ node[u].depth = node[p].depth - 10
                        /\ 2 * node[u].breadth >= node[p].breadth
                        /\ 2 * node[u].breadth <= node[p].breadth + 1
                  /\ ~Recursed(u) =>
                        /\ unit[u].pc = "returned"
                        /\ unit[u].how = "terminal"
                        /\ Len(unit[u].result.learnings)
                              = Len(node[p].args.learnings) + Len(unit[u].extracted)
                        /\ u \in NodeIds => node[u] = IdleNode
                        /\ \A v \in UnitIds :
                              (Len(v) = Len(u) + 1 /\ Parent(v) = u) => unit[v] = IdleUnit

\* C21 witness: in a run of depth 2 and breadth 2 the first query recursed
\* with depth 1 and breadth 1, and the one query of the recursive call,
\* asked for one follow-up question, returned the terminal result
C21_Witness ==
    /\ call.depth = 20 /\ call.breadth = 2
    /\ unit[<<1>>].how = "child" /\ unit[<<1>>].pc = "returned"
    /\ unit[<<1>>].asked = 1
    /\ node[<<1>>].depth = 10 /\ node[<<1>>].breadth = 1
    /\ unit[<<1, 1>>].how = "terminal" /\ unit[<<1, 1>>].asked = 1
    /\ Len(unit[<<1, 1>>].result.learnings) = 2

\* The steps a unit may take, as pairs of positions
UnitSteps ==
    {<<"idle", "searching">>, <<"idle", "queued">>, <<"queued", "searching">>,
     <<"searching", "processing">>, <<"searching", "returned">>,
     <<"processing", "recursing">>, <<"processing", "returned">>,
     <<"recursing", "returned">>, <<"recursing", "rejected">>}

\* C22: the events of an invocation are ordered.  A unit leaves idle only
\* in the step that ends the planning of its invocation, so no search is
\* issued before generateSerpQueries has answered; a unit goes from its
\* search to its processing and from its processing to the recursive call
\* or its return, never otherwise; an invocation resolves only in a state
\* where every one of its units has returned a branch result.
C22_EventsOrdered ==
    /\ [](\A u \in UnitIds : unit[u].pc # "idle" => Planned(Parent(u)))
    /\ [][\A u \in UnitIds :
            /\ unit[u].pc # unit'[u].pc => <<unit[u].pc, unit'[u].pc>> \in UnitSteps
            /\ (unit[u].pc = "idle" /\ unit'[u].pc # "idle") =>
                  /\ node[Parent(u)].st = "planning"
                  /\ node'[Parent(u)].st = "running"
            /\ (unit[u].pc = "searching" /\ unit'[u].pc = "returned") =>
                  unit'[u].how = "searchError"
            /\ (Settled(u) /\ unit[u].how \in {"terminal", "child"}) =>
                  unit[u].asked > 0]_vars
    /\ [][\A p \in NodeIds :
            (node[p].st # "resolved" /\ node'[p].st = "resolved") =>
                /\ node[p].st = "running"
                /\ \A i \in 1..Len(node[p].queries) :
                      unit[Append(p, i)].pc = "returned"]_vars

\* C22 witness: a run of depth 2 and breadth 2 has resolved after its
\* first query returned the result of its recursive call and the search
\* of its second query failed
C22_Witness ==
    /\ call.depth = 20
    /\ node[<<>>].st = "resolved"
    /\ Len(node[<<>>].queries) = 2
    /\ unit[<<1>>].pc = "returned" /\ unit[<<1>>].how = "child"
    /\ node[<<1>>].st = "resolved"
    /\ unit[<<2>>].pc = "returned" /\ unit[<<2>>].how = "searchError"

\* The units of invocation p whose result has an entry of this url
Holders(p, url) ==
    {i \in 1..Len(node[p].queries) :
        \E k \in 1..Len(unit[Append(p, i)].result.sourceMetadata) :
            unit[Append(p, i)].result.sourceMetadata[k].url = url}

\* m is the last entry of its url in the result of unit u
LastEntryOf(m, u) ==
    LET metas == unit[u].result.sourceMetadata
    IN  \E k \in 1..Len(metas) :
            /\ metas[k] = m
            /\ \A j \in (k + 1)..Len(metas) : metas[j].url # m.url

\* C23 as amended: where sibling branches return the same url, the entry in
\* the merged result is the one of the branch whose query is the last in
\* the order of serpQueries, whatever the order in which the branches
\* completed; the result is a function of the collaborators' answers.
C23_LastQueryWins ==
    \A p \in NodeIds :
        node[p].st = "resolved" =>
            \A k \in 1..Len(node[p].result.sourceMetadata) :
                LET m == node[p].result.sourceMetadata[k]
                    holders == Holders(p, m.url)
                IN  \E i \in holders :
                        /\ \A j \in holders : j <= i
                        /\ LastEntryOf(m, Append(p, i))

\* C23 as stated: where sibling branches return the same url, the entry in
\* the merged result is the one of the branch that completed last.
C23_LastCompletedWins ==
    \A p \in NodeIds :
        node[p].st = "resolved" =>
            \A k \in 1..Len(node[p].result.sourceMetadata) :
                LET m == node[p].result.sourceMetadata[k]
                    holders == Holders(p, m.url)
                IN  \E i \in holders :
                        /\ \A j \in holders :
                              unit[Append(p, j)].rank <= unit[Append(p, i)].rank
                        /\ LastEntryOf(m, Append(p, i))

\* C23 witness: both queries of a call of depth 1 found the same page, the
\* second completed first and the first last, and the merged entry has the
\* score that the page got for the second query
C23_Witness ==
    /\ call.depth = 10
    /\ node[<<>>].st = "resolved"
    /\ Len(node[<<>>].queries) = 2
    /\ unit[<<1>>].how = "terminal" /\ unit[<<2>>].how = "terminal"
    /\ unit[<<2>>].rank = 1 /\ unit[<<1>>].rank = 2
    /\ Len(unit[<<1>>].result.sourceMetadata) = 1
    /\ unit[<<1>>].result.sourceMetadata[1].reliabilityScore = SharedScore(<<1>>)
    /\ Len(node[<<>>].result.sourceMetadata) = 1
    /\ node[<<>>].result.sourceMetadata[1].url = <<1, 1>>
    /\ node[<<>>].result.sourceMetadata[1].reliabilityScore = SharedScore(<<2>>)

\* C24: processSerpResult returns at most numLearnings learnings (and as
\* many weightedLearnings and learningConfidences) and at most
\* numFollowUpQuestions follow-up questions and priorities.
C24_OutputsBounded ==
    pr.pc = "returned" =>
        /\ Len(pr.out.learnings) <= NumLearnings
        /\ Len(pr.out.weightedLearnings) <= NumLearnings
        /\ Len(pr.out.learningConfidences) <= NumLearnings
        /\ Len(pr.out.followUpQuestions) <= pr.numFollowUpQuestions
        /\ Len(pr.out.followUpPriorities) <= pr.numFollowUpQuestions

\* C25: the content blocks handed to the synthesis are in the order of
\* non-increasing reliabilityScore, one block for every paired content.
C25_PromptByScore ==
    pr.pc = "returned" =>
        /\ Len(pr.out.prompt) = Len(ContentWithMetadata(pr.data, pr.evals))
        /\ \A i, j \in 1..Len(pr.out.prompt) :
              i < j => pr.out.prompt[i].metadata.reliabilityScore
                         >= pr.out.prompt[j].metadata.reliabilityScore

\* C25 witness: the first document was scored 0.2 and the second 0.8, and
\* the prompt has the block of the second before the block of the first
C25_Witness ==
    /\ pr.pc = "returned"
    /\ Len(pr.data) = 2
    /\ pr.evals[1] = [ok |-> TRUE, score |-> 2]
    /\ pr.evals[2] = [ok |-> TRUE, score |-> 8]
    /\ Len(pr.out.prompt) = 2
    /\ pr.out.prompt[1].metadata.url = pr.data[2].url
    /\ pr.out.prompt[1].metadata.reliabilityScore = 8
    /\ pr.out.prompt[2].metadata.reliabilityScore = 2

\* The documents that have a url that parses and whose evaluation answered
Evaluated(data, evals) ==
    {i \in 1..Len(data) :
        data[i].url # NoString /\ Len(data[i].url) = 2 /\ evals[i].ok}

\* C26: a document whose evaluation failed, or whose url does not parse, is
\* dropped alone.  The evaluation step never fails processSerpResult, and
\* the sourceMetadata returned has exactly one entry for every other
\* document that has a url, in their order, each with the url, the domain
\* and the score of its own document.
C26_FailedSourceDropped ==
    /\ [](pr.pc = "returned" =>
            LET ok == Evaluated(pr.data, pr.evals)
                metas == pr.out.sourceMetadata
            IN  /\ Len(metas) = Cardinality(ok)
                /\ \A k \in 1..Len(metas) :
                      LET i == CHOOSE i \in ok :
                                  Cardinality({j \in ok : j < i}) = k - 1
                      IN  /\ metas[k].url = pr.data[i].url
                          /\ metas[k].domain = <<pr.data[i].url[1]>>
                          /\ metas[k].reliabilityScore = pr.evals[i].score)
    /\ [][pr.pc = "evaluating" => pr'.pc = "synthesising"]_vars

\* C26 witness: of two documents with a url the evaluation of the first
\* failed; the function returned, with the entry of the second alone
C26_Witness ==
    /\ pr.pc = "returned"
    /\ Len(pr.data) = 2
    /\ pr.data[1].url = <<1, 1>> /\ pr.data[2].url = <<2, 1>>
    /\ ~pr.evals[1].ok /\ pr.evals[2].ok
    /\ Len(pr.out.sourceMetadata) = 1
    /\ pr.out.sourceMetadata[1].url = <<2, 1>>
    /\ pr.out.sourceMetadata[1].reliabilityScore = pr.evals[2].score

\* Sequence s starts with sequence t
StartsWith(s, t) == Len(t) <= Len(s) /\ SubSeq(s, 1, Len(t)) = t

\* r is what invocation p received followed by what the query of unit u
\* produced: its learnings, the urls of its documents, metadata of these
\* urls, and one weighted learning for each of its learnings
AccumulatedBy(r, p, u) ==
    LET a == node[p].args
        found == SelectSeq([i \in 1..Len(unit[u].data) |-> unit[u].data[i].url],
                           LAMBDA x : x # <<>>)
        n == Len(a.weightedLearnings)
    IN  /\ r.learnings = a.learnings \o unit[u].extracted
        /\ r.visitedUrls = a.visitedUrls \o found
        /\ StartsWith(r.sourceMetadata, a.sourceMetadata)
        /\ \A k \in (Len(a.sourceMetadata) + 1)..Len(r.sourceMetadata) :
              r.sourceMetadata[k].url \in Range(found)
        /\ StartsWith(r.weightedLearnings, a.weightedLearnings)
        /\ Len(r.weightedLearnings) = n + Len(unit[u].extracted)
        /\ \A k \in 1..Len(unit[u].extracted) :
              r.weightedLearnings[n + k].content = unit[u].extracted[k]

\* C27: the recursive call of a unit receives what the invocation of the
\* unit received, in its order, followed by what the query produced; a
\* terminal unit returns exactly that.
C27_AccumulatedPassedOn ==
    \A u \in UnitIds :
        /\ (Recursed(u) /\ u \in NodeIds) => AccumulatedBy(node[u].args, Parent(u), u)
        /\ (Settled(u) /\ unit[u].how = "terminal") =>
              AccumulatedBy(unit[u].result, Parent(u), u)

\* C27 witness: the recursive call of the first query received the
\* learning, the url and the metadata of that query, and its own query
\* returned them followed by its own
C27_Witness ==
    /\ call.depth = 20
    /\ unit[<<1>>].pc = "recursing"
    /\ node[<<1>>].args.learnings = <<<<1>>>>
    /\ node[<<1>>].args.visitedUrls = <<<<1, 1>>>>
    /\ Len(node[<<1>>].args.sourceMetadata) = 1
    /\ unit[<<1, 1>>].how = "terminal"
    /\ unit[<<1, 1>>].result.learnings = <<<<1>>, <<1, 1>>>>
    /\ Len(unit[<<1, 1>>].result.visitedUrls) = 2
    /\ Len(unit[<<1, 1>>].result.sourceMetadata) = 2
    /\ Len(unit[<<1, 1>>].result.weightedLearnings) = 2

\* C28: deepResearch and the functions it calls leave the arrays of the
\* caller as they were: after generateSerpQueries has run, the
\* researchDirections array passed in has the same elements in the same
\* order as at the call.
C28_CallerArraysUnchanged ==
    pq.pc \in {"dispatching", "done"} => pq.researchDirections = pq.passed

-----------------------------------------------------------------------------
(* Claims about the handler of the tool                                    *)

\* C29: where deepResearch or writeFinalReport rejected, the handler has
\* not thrown: it has returned the error response, and it has run the stop
\* step if it had started local Firecrawl.  A sources file that could not
\* be written does not make the response an error response.
C29_ErrorsBecomeResponses ==
    /\ (sv.pc = "done" /\ (sv.research = "rejected" \/ sv.report = "rejected"))
       => /\ ~sv.threw
          /\ sv.response = "error"
          /\ sv.firecrawlStarted => sv.stops > 0
    /\ (sv.pc = "done" /\ sv.saved = "failed") => sv.response # "error"

\* C30: with local Firecrawl configured, deepResearch is called only after
\* a health check answered ok or 404; a check that did not is followed by
\* another as long as the wait is not over; and a handler whose
\* startLocalFirecrawl threw returns the error response, deepResearch never
\* called.
C30_ResearchAfterHealthCheck ==
    /\ []((sv.local /\ sv.research # "none")
            => (sv.checks >= 1 /\ sv.answer \in {"ok", "404"}))
    /\ []((sv.pc = "done" /\ sv.local /\ ~sv.firecrawlStarted
             /\ sv.response # "invalid")
            => (sv.response = "error" /\ sv.research = "none"))
    /\ [][(/\ sv.pc = "waiting"
           /\ sv'.checks = sv.checks + 1
           /\ sv'.answer \notin {"ok", "404"}
           /\ sv'.checks < MaxChecks)
          => sv'.pc = "waiting"]_vars

-----------------------------------------------------------------------------
(* Claims about what reaches the result of the top-level call              *)

RECURSIVE PathLearnings(_)
\* The learnings extracted for the queries on the path from the top-level
\* call to unit u, in the order of the path
PathLearnings(u) ==
    IF u = <<>> THEN <<>> ELSE PathLearnings(Parent(u)) \o unit[u].extracted

\* The units that returned the terminal result
TerminalUnits == {u \in UnitIds : unit[u].pc = "returned" /\ unit[u].how = "terminal"}

\* C31: the learnings that the top-level call returns are, without
\* duplicates, the learnings accumulated on the paths to the units that
\* returned the terminal result, and no others: what was learnt at a unit
\* below which no unit returned the terminal result is not among them.
C31_TerminalPathsOnly ==
    node[<<>>].st = "resolved" =>
        LET learnings == node[<<>>].result.learnings
        IN  /\ Range(learnings) = UNION {Range(PathLearnings(u)) : u \in TerminalUnits}
            /\ \A i, j \in 1..Len(learnings) : i # j => learnings[i] # learnings[j]
            /\ \A u \in TerminalUnits : unit[u].result.learnings = PathLearnings(u)

\* C31 witness: the first query of a call of depth 2 had a learning
\* extracted and recursed, the recursive call planned no query, and the
\* call returned the learnings of the path to a terminal unit below its
\* second query, the learning of the first query not among them
C31_Witness ==
    /\ call.depth = 20
    /\ node[<<>>].st = "resolved"
    /\ unit[<<1>>].how = "child" /\ unit[<<1>>].extracted = <<<<1>>>>
    /\ node[<<1>>].st = "resolved" /\ node[<<1>>].queries = <<>>
    /\ unit[<<2, 1>>].how = "terminal"
    /\ node[<<>>].result.learnings = <<<<2>>, <<2, 1>>>>

\* C32: every content block of the prompt of the synthesis carries the
\* metadata of the document that the content came from: some document of
\* the search result has that markdown, that url and, from its own
\* evaluation, that score.
C32_BlocksOfOneDocument ==
    pr.pc = "returned" =>
        \A k \in 1..Len(pr.out.prompt) :
            \E i \in 1..Len(pr.data) :
                /\ pr.data[i].markdown = pr.out.prompt[k].content
                /\ pr.data[i].url = pr.out.prompt[k].metadata.url
                /\ pr.evals[i].ok
                /\ pr.evals[i].score = pr.out.prompt[k].metadata.reliabilityScore

-----------------------------------------------------------------------------
(* Claims about the limiter                                                *)

\* C33: a unit holds its slot while its recursive call runs, and the run
\* completes all the same, under every concurrency from 1 on: as long as
\* the top-level call has not settled some step can be taken, and the call
\* settles in the end.
C33_NoSlotDeadlock ==
    /\ [](\A u \in UnitIds : unit[u].pc = "recursing" => Active(u))
    /\ [](RootSettled \/ ENABLED TreeNext)
    /\ <>RootSettled

\* C33 witness: under concurrency 1 the first query holds the one slot of
\* the top-level call while its recursive call runs, the second query
\* waits, and the query of the recursive call has started its search
C33_Witness ==
    /\ call.concurrency = 1 /\ call.depth = 20 /\ call.breadth = 2
    /\ unit[<<1>>].pc = "recursing"
    /\ unit[<<2>>].pc = "queued"
    /\ unit[<<1, 1>>].pc = "searching"

\* How many units of invocation p hold a slot of its limiter
ActiveCount(p) ==
    Cardinality({i \in 1..Len(node[p].queries) : Active(Append(p, i))})

\* C34: of the units of one invocation at most as many as the concurrency
\* run at a time, from the start of the search to the return of the result,
\* the recursion included; a unit waits only while every slot is held, and
\* every waiting unit starts in the end.
C34_LimitPerInvocation ==
    /\ [](\A p \in NodeIds :
            /\ ActiveCount(p) <= call.concurrency
            /\ (\E i \in 1..Len(node[p].queries) : unit[Append(p, i)].pc = "queued")
               => ActiveCount(p) = call.concurrency)
    /\ \A u \in UnitIds : (unit[u].pc = "queued") ~> (unit[u].pc # "queued")

\* C34 witness: under concurrency 1 the second query of the top-level
\* call, which waited, searches now that the first has returned the result
\* of its recursive call
C34_Witness ==
    /\ call.concurrency = 1 /\ call.depth = 20 /\ call.breadth = 2
    /\ unit[<<1>>].pc = "returned" /\ unit[<<1>>].how = "child"
    /\ unit[<<2>>].pc = "searching"
    /\ ActiveCount(<<>>) = 1

-----------------------------------------------------------------------------
(* Claims about the shape of the results                                   *)

\* reliabilities[i] is a confidence with which the synthesis reported
\* learnings[i], for every i
Aligned(learnings, reliabilities) ==
    /\ Len(reliabilities) = Len(learnings)
    /\ \A i \in 1..Len(learnings) :
          \E synth \in TreeSynth(learnings[i]) :
              \E k \in 1..Len(synth.learnings) :
                  /\ synth.learnings[k].content = learnings[i]
                  /\ synth.learnings[k].confidence = reliabilities[i]

\* C35: in every result that deepResearch returns, learningReliabilities
\* is as long as learnings and holds at i the confidence reported for
\* learnings[i]; so do the learnings and learningReliabilities that a
\* recursive call receives.
C35_ReliabilitiesAligned ==
    \A p \in NodeIds :
        /\ node[p].st = "resolved" =>
              Aligned(node[p].result.learnings, node[p].result.learningReliabilities)
        /\ node[p].st # "idle" =>
              Aligned(node[p].args.learnings, node[p].args.learningReliabilities)

-----------------------------------------------------------------------------
(* Claims about the progress record                                        *)

\* The queries of invocation p whose search and processSerpResult call
\* both answered
Succeeded(p) ==
    {i \in 1..Len(node[p].queries) : Processed(Append(p, i))}

\* The queries of invocation p that are counted when all have finished:
\* those of Succeeded(p), less, in the copy that counts a recursing query
\* after its recursive call, those whose recursive call rejected
Counted(p) ==
    {i \in Succeeded(p) :
        ~(CountsAfterChild /\ unit[Append(p, i)].how = "childError")}

AllFinished(p) ==
    /\ Planned(p)
    /\ \A i \in 1..Len(node[p].queries) : Settled(Append(p, i))

\* C36 as stated: the progress record of every invocation has
\* 0 <= completedQueries <= totalQueries, completedQueries never
\* decreases, and once every unit of the invocation has finished it is the
\* number of queries whose search and processing succeeded.
C36_CompletedCountsSucceeded ==
    /\ [](\A p \in NodeIds :
            /\ 0 <= node[p].completedQueries
            /\ node[p].completedQueries <= node[p].totalQueries
            /\ AllFinished(p) => node[p].completedQueries = Cardinality(Succeeded(p)))
    /\ [][\A p \in NodeIds :
            node'[p].completedQueries >= node[p].completedQueries]_vars

\* C36 as amended: the same, the number being that of the queries whose
\* search and processing succeeded and, where the query is counted after
\* its recursive call, whose recursive call resolved.
C36_CompletedCountsReturned ==
    /\ [](\A p \in NodeIds :
            /\ 0 <= node[p].completedQueries
            /\ node[p].completedQueries <= node[p].totalQueries
            /\ AllFinished(p) => node[p].completedQueries = Cardinality(Counted(p)))
    /\ [][\A p \in NodeIds :
            node'[p].completedQueries >= node[p].completedQueries]_vars

\* C36 witness: in the copy that counts a query after its recursive call,
\* both queries of a call of depth 2 were searched and processed; the
\* recursive call of the first rejected and that of the second resolved;
\* all have finished and completedQueries is 1 of totalQueries 2
C36_Witness ==
    /\ CountsAfterChild
    /\ call.depth = 20
    /\ AllFinished(<<>>)
    /\ unit[<<1>>].how = "childError"
    /\ unit[<<2>>].how = "child"
    /\ Cardinality(Succeeded(<<>>)) = 2
    /\ node[<<>>].totalQueries = 2
    /\ node[<<>>].completedQueries = 1

-----------------------------------------------------------------------------
\* The urls of the entries of a sourceMetadata
MetaUrls(metas) == {metas[k].url : k \in 1..Len(metas)}

\* Every url of the sourceMetadata of r is one of its visitedUrls
SourcesVisited(r) == MetaUrls(r.sourceMetadata) \subseteq Range(r.visitedUrls)

\* C38: in a deepResearch call started with empty accumulated state, every
\* url of a returned sourceMetadata is among the returned visitedUrls, at
\* every level of the recursion: in what every invocation receives, in what
\* every query returns and in what every invocation returns.
C38_SourcesAmongVisited ==
    /\ \A p \in NodeIds :
          /\ node[p].st # "idle" => SourcesVisited(node[p].args)
          /\ node[p].st = "resolved" => SourcesVisited(node[p].result)
    /\ \A u \in UnitIds :
          unit[u].pc = "returned" => SourcesVisited(unit[u].result)

\* C38 witness: a call of depth 2 returned, from its two queries and their
\* recursive calls, two visitedUrls and one entry of sourceMetadata: the
\* evaluation of the page of the second query failed, and the entry of the
\* other page has a score below the threshold of its query
C38_Witness ==
    /\ call.depth = 20
    /\ node[<<>>].st = "resolved"
    /\ Len(node[<<>>].queries) = 2
    /\ unit[<<1>>].how = "child" /\ unit[<<2>>].how = "child"
    /\ node[<<>>].result.visitedUrls = <<<<1, 1>>, <<1, 2>>>>
    /\ Len(node[<<>>].result.sourceMetadata) = 1
    /\ node[<<>>].result.sourceMetadata[1].url = <<1, 1>>
    /\ node[<<>>].result.sourceMetadata[1].reliabilityScore
          < node[<<>>].queries[1].reliabilityThreshold

\* C37: with two overlapping calls of the tool and local Firecrawl
\* configured, no finally block runs `docker-compose down` while the
\* deepResearch of the other call is still in progress.
C37_NoShutdownDuringResearch ==
    [][tc'.downs = tc.downs + 1
         => \A c \in Calls : ~(tc.pc[c] = "researching" /\ tc'.pc[c] = "researching")]_vars

RECURSIVE Squeeze(_, _)
\* The messages of msgs that differ from the message before them, last
\* being the message before the first
Squeeze(msgs, last) ==
    IF msgs = <<>> THEN <<>>
    ELSE IF Head(msgs) = last THEN Squeeze(Tail(msgs), last)
    ELSE <<Head(msgs)>> \o Squeeze(Tail(msgs), Head(msgs))

Usable(env, provider) == env[KeyOf(provider)] \notin {Unset, "", " "}

\* The provider that the specifier names ahead of its first separator,
\* in lower case
Prefix(spec) == ToLowerCase(SplitAll(spec)[1])

\* C40: getAvailableProviders lists the entries of exactly the providers
\* whose API key is set and not blank, in the order of non-increasing
\* intelligence; getDefaultModel, and getModel with an empty specifier,
\* return the model of the first entry, and throw 'No API keys found'
\* where there is no entry; getModel with the prefix of an unsupported
\* provider throws, and with the prefix of a supported provider returns a
\* model of that provider or, where the key of that provider is missing,
\* throws: it never returns the model of another provider.
C40_BestAvailableOrThrow ==
    pm.pc = "returned" =>
        LET available == GetAvailableProviders(pm.env)
            spec == IF pm.given THEN Trim(pm.text) ELSE <<>>
        IN  /\ pm.fn = "getAvailableProviders" =>
                 /\ \A i \in 1..Len(pm.available) :
                       Usable(pm.env, pm.available[i].provider)
                 /\ \A provider \in Supported :
                       Usable(pm.env, provider) =>
                           \E i \in 1..Len(pm.available) :
                               pm.available[i].provider = provider
                 /\ \A i \in 1..(Len(pm.available) - 1) :
                       pm.available[i].intelligence >= pm.available[i + 1].intelligence
            /\ (pm.fn = "getDefaultModel" \/ (pm.fn = "getModel" /\ spec = <<>>)) =>
                 IF available = <<>>
                 THEN ~pm.out.ok /\ pm.out.error = "No API keys found"
                 ELSE /\ pm.out.ok
                      /\ pm.out.provider = available[1].provider
                      /\ pm.out.model = <<available[1].model>>
            /\ (pm.fn = "getModel" /\ HasProvider(spec)) =>
                 LET prefix == Prefix(spec)
                 IN  IF Len(prefix) = 1 /\ prefix[1] \in Supported
                     THEN IF Usable(pm.env, prefix[1])
                          THEN pm.out.ok /\ pm.out.provider = prefix[1]
                          ELSE /\ ~pm.out.ok
                               /\ pm.out.error = KeyOf(prefix[1]) \o " is required but not set"
                     ELSE (prefix # <<>> /\ prefix # <<"auto">>) =>
                              /\ ~pm.out.ok
                              /\ pm.out.error = "Unsupported provider in model specifier"

\* C40 witness: with a Google key and a blank OpenAI key, getModel of
\* "openai:gpt-4" threw that the OpenAI key is required, though the model
\* of the first available entry was there to fall back on
C40_Witness ==
    /\ pm.pc = "returned"
    /\ pm.fn = "getModel"
    /\ pm.given /\ pm.text = <<"openai", ":", "gpt-4">>
    /\ pm.env["OPENAI_API_KEY"] = " "
    /\ pm.env["GOOGLE_API_KEY"] = "sk-1"
    /\ GetAvailableProviders(pm.env)[1].model = "gemini-2.5-pro"
    /\ ~pm.out.ok
    /\ pm.out.error = "OPENAI_API_KEY is required but not set"

=============================================================================
